---- MODULE Spec2Model ----
(***************************************************************************)
(* A model of the engram knowledge base: the SQLite storage layer          *)
(* (src/src/knowledge_graph.py) and the token-based source indexers        *)
(* (src/src/indexers/gmail_indexer.py, gdrive_indexer.py, gcal_indexer.py).*)
(*                                                                         *)
(* Spec      : the public calls of KnowledgeGraph, each one transaction.   *)
(* SpecFault : the same calls when a statement may fail.                   *)
(* SpecSyncState : set_last_sync alone.                                    *)
(* SpecSync  : full and delta index runs of the indexers against the same  *)
(*             storage operators.                                          *)
(* SpecQuery : indexing of content and the searches of the query engine.   *)
(* SpecEmbed : the Embedder, its cache, its retries and its restarts.      *)
(* SpecChunk : the TextChunker on bounded texts.                           *)
(* SpecSemantic : the SemanticIndexer over the content table and the       *)
(*             vector store.                                               *)
(* SpecConcurrent : upsert_entity of two callers, statement by statement.  *)
(* SpecConversation : the ConversationManager while the clock runs.        *)
(* SpecContext : add_message and get_recent_history of one context.        *)
(* SpecBot   : the Slack bot's message and button handlers.                *)
(* SpecInterleave : a full index run, step by step, of a source whose      *)
(*             items change meanwhile, and the delta runs after it.        *)
(* SpecRetrieval : content synced, indexed into the vector store, deleted  *)
(*             by a delta sync, and searched.                              *)
(***************************************************************************)
EXTENDS Integers, Sequences, FiniteSets, TLC

VARIABLES
    kg,            \* the database behind KnowledgeGraph: its five tables
    now,           \* the wall clock: CURRENT_TIMESTAMP and datetime.now()
    last,          \* the last call made: its name, arguments and result
    embedder,      \* the Embedder: its in-memory cache and its cache directory
    vector_store,  \* the Vector Store: the vectors of each collection
    manager,       \* the ConversationManager: its contexts
    sessions,      \* the callers in progress: their position and what they hold
    remote         \* the account at the source: its items and its change history

vars == <<kg, now, last, embedder, vector_store, manager, sessions, remote>>
\* the components the storage layer and the source indexers do not touch
components == <<embedder, vector_store, manager, sessions, remote>>

\* ------------------------------------------------------------------------
\* Bounds of the model
\* ------------------------------------------------------------------------
\* the wall clock (CURRENT_TIMESTAMP, datetime.now) runs over 0..MaxClock
MaxClock == 1
\* changelog rows a behaviour may append
MaxLog == 3
\* changelog rows a behaviour with failing calls may append
MaxLogFault == 2

\* ------------------------------------------------------------------------
\* Values
\* ------------------------------------------------------------------------
NULL == "NULL"
EntityIds == {"person:x", "person:y"}
NativeIds == {"1", "2"}
\* f"{source}:{account}:{native id}"
ContentId(source, account, id) ==
    CASE source = "gmail" -> (IF id = "1" THEN "gmail:a:1" ELSE "gmail:a:2")
      [] source = "drive" -> (IF id = "1" THEN "drive:a:1" ELSE "drive:a:2")
      [] OTHER -> (IF id = "1" THEN "calendar:a:1" ELSE "calendar:a:2")
\* f"github:repo:{repo['full_name']}" and
\* f"github:commit:{repo}:{commit['sha']}", the commits being of repository r
GitHubContentId(kind, id) ==
    IF kind = "repo" THEN (IF id = "1" THEN "github:repo:1" ELSE "github:repo:2")
    ELSE (IF id = "1" THEN "github:commit:r:1" ELSE "github:commit:r:2")
ContentIds == {ContentId(source, "a", id) : source \in {"gmail", "drive", "calendar"},
                                            id \in NativeIds}
              \cup {GitHubContentId(kind, id) : kind \in {"repo", "commit"},
                                                id \in NativeIds}
\* the content ids the storage calls of Spec and SpecFault are made with
CallContentIds == {"gmail:a:1"}
Ids == EntityIds \cup ContentIds
Relations == {"sender"}
\* Python values: None, and a dict with its length and items
PyNone == [py |-> "None"]
dict(len, items) == [py |-> "dict", len |-> len, items |-> items]
Sources == {"gmail", "drive", "calendar"}
Accounts == {"a"}
\* config.GITHUB_USERNAME, the account of the GitHub SyncState row
GITHUB_USERNAME == "me"
SyncPairs == (Sources \X Accounts) \cup {<<"github", GITHUB_USERNAME>>}
Tokens == {"tok1", "tok2"}
\* Python values of a sync_token argument: None or a token
TokenArgs == {NULL} \cup Tokens

\* absence of a row (fetchone() returning None)
NoRow == [id |-> "None"]

\* a NULL column that is not compared with text
SqlNull == [null |-> TRUE]

\* json.dumps(metadata) if metadata else None: None and the empty dict are
\* both falsy and are stored as SQL NULL
json_dumps(metadata) ==
    IF metadata.py = "None" \/ metadata.len = 0 THEN SqlNull ELSE [json |-> metadata]

\* json.loads of a metadata column
json_loads(text) == text.json

\* Python datetimes are <<"dt", t>>, None is the empty tuple
None_dt == << >>
datetime(t) == <<"dt", t>>
\* timestamp.isoformat() if timestamp else None; a NULL column is the empty tuple
isoformat(timestamp) == IF timestamp = None_dt THEN << >> ELSE <<"iso", timestamp[2]>>

\* _row_to_dict: the metadata column is parsed back from JSON when present;
\* a missing row is None
row_to_dict(row) ==
    IF row = NoRow THEN NoRow
    ELSE IF row.metadata # SqlNull
         THEN [row EXCEPT !.metadata = json_loads(row.metadata)]
         ELSE [row EXCEPT !.metadata = PyNone]

\* ------------------------------------------------------------------------
\* The database: the five tables of _init_schema
\* ------------------------------------------------------------------------
EmptyDb ==
    [ entities      |-> [i \in EntityIds |-> NoRow],
      content       |-> [i \in ContentIds |-> NoRow],
      relationships |-> {},
      rel_seq       |-> 0,
      changelog     |-> << >>,
      sync_state    |-> [k \in SyncPairs |-> NoRow] ]

\* outcome of the statements run inside one `with self._connection()` block
Returns(conn, ret) == [conn |-> conn, ret |-> ret, exc |-> FALSE]
Raises(conn) == [conn |-> conn, ret |-> NULL, exc |-> TRUE]

\* statements at which a call can fail (sqlite3 error other than the
\* IntegrityError that add_relationship handles)
Faults == {"none", "write", "log", "commit"}

\* a broken context manager: commits whatever the block wrote before it raised
connection_no_rollback(db, block, fault) ==
    IF block.exc \/ fault = "commit"
    THEN [db |-> block.conn, ret |-> NULL, raised |-> TRUE]
    ELSE [db |-> block.conn, ret |-> block.ret, raised |-> FALSE]

\* _connection: commit when the block returns, rollback and re-raise otherwise
connection(db, block, fault) ==
    IF block.exc
    THEN [db |-> db, ret |-> NULL, raised |-> TRUE]
    ELSE IF fault = "commit"
    THEN [db |-> db, ret |-> NULL, raised |-> TRUE]
    ELSE [db |-> block.conn, ret |-> block.ret, raised |-> FALSE]

\* a _log_change that keeps one record per row: it replaces the row's record
log_change_replaces(conn, table_name, record_id, action) ==
    [conn EXCEPT !.changelog =
        Append(SelectSeq(@, LAMBDA r : ~(r.table_name = table_name /\ r.record_id = record_id)),
               [table_name |-> table_name, record_id |-> record_id, action |-> action])]

\* _log_change: one INSERT INTO changelog
log_change(conn, table_name, record_id, action) ==
    [conn EXCEPT !.changelog =
        Append(@, [table_name |-> table_name, record_id |-> record_id, action |-> action])]

\* ------------------------------------------------------------------------
\* KnowledgeGraph: the blocks run inside _connection
\* t is CURRENT_TIMESTAMP at the call
\* ------------------------------------------------------------------------
entity_row(a, created_at, updated_at) ==
    [ id |-> a.entity_id, type |-> a.entity_type, name |-> a.name, email |-> a.email,
      source |-> a.source, source_account |-> a.source_account,
      metadata |-> json_dumps(a.metadata),
      created_at |-> created_at, updated_at |-> updated_at ]

\* an upsert that reports its post-write state: the row exists after the write
upsert_entity_post_state(db, a, t, fault) ==
    LET existing == db.entities[a.entity_id] # NoRow
        written == [db EXCEPT !.entities[a.entity_id] =
                        IF existing THEN entity_row(a, @.created_at, t)
                        ELSE entity_row(a, t, t)]
        logged == log_change(written, "entities", a.entity_id,
                             IF existing THEN "update" ELSE "insert")
    IN  IF fault = "write" THEN Raises(db)
        ELSE IF fault = "log" THEN Raises(written)
        ELSE Returns(logged, ~(logged.entities[a.entity_id] # NoRow))

\* an upsert written as INSERT OR REPLACE: the row is re-created on update
upsert_entity_replace(db, a, t, fault) ==
    LET existing == db.entities[a.entity_id] # NoRow
        written == [db EXCEPT !.entities[a.entity_id] = entity_row(a, t, t)]
        logged == log_change(written, "entities", a.entity_id,
                             IF existing THEN "update" ELSE "insert")
    IN  IF fault = "write" THEN Raises(db)
        ELSE IF fault = "log" THEN Raises(written)
        ELSE Returns(logged, ~existing)

\* upsert_entity: SELECT, then UPDATE or INSERT, then _log_change; the return
\* value is decided by the SELECT made before the write
upsert_entity_block(db, a, t, fault) ==
    LET existing == db.entities[a.entity_id] # NoRow
        written == [db EXCEPT !.entities[a.entity_id] =
                        IF existing THEN entity_row(a, @.created_at, t)
                        ELSE entity_row(a, t, t)]
        logged == log_change(written, "entities", a.entity_id,
                             IF existing THEN "update" ELSE "insert")
    IN  IF fault = "write" THEN Raises(db)
        ELSE IF fault = "log" THEN Raises(written)
        ELSE Returns(logged, ~existing)

upsert_entity(db, a, t, fault) == connection(db, upsert_entity_block(db, a, t, fault), fault)

content_row(a, created_at, updated_at) ==
    [ id |-> a.content_id, type |-> a.content_type, title |-> a.title, body |-> a.body,
      source |-> a.source, source_account |-> a.source_account,
      source_id |-> a.source_id, url |-> a.url,
      timestamp |-> isoformat(a.timestamp),
      metadata |-> json_dumps(a.metadata),
      created_at |-> created_at, updated_at |-> updated_at ]

\* upsert_content: as upsert_entity, on the content table
upsert_content_block(db, a, t, fault) ==
    LET existing == db.content[a.content_id] # NoRow
        written == [db EXCEPT !.content[a.content_id] =
                        IF existing THEN content_row(a, @.created_at, t)
                        ELSE content_row(a, t, t)]
        logged == log_change(written, "content", a.content_id,
                             IF existing THEN "update" ELSE "insert")
    IN  IF fault = "write" THEN Raises(db)
        ELSE IF fault = "log" THEN Raises(written)
        ELSE Returns(logged, ~existing)

upsert_content(db, a, t, fault) == connection(db, upsert_content_block(db, a, t, fault), fault)

\* the rows a FOREIGN KEY ... REFERENCES entities(id) accepts
has_entity(db, id) == id \in EntityIds /\ db.entities[id] # NoRow

\* idx_rel_unique: no stored row has the triple
triple_free(db, a) ==
    \A r \in db.relationships :
        ~(r.from_id = a.from_id /\ r.to_id = a.to_id /\ r.relation = a.relation)

\* a schema whose relationships table lacks the UNIQUE index
insert_allowed_no_unique(db, a) ==
    has_entity(db, a.from_id) /\ has_entity(db, a.to_id)

\* the constraints the INSERT INTO relationships must meet, else IntegrityError:
\* both foreign keys (PRAGMA foreign_keys = ON) and the unique index
insert_allowed(db, a) ==
    has_entity(db, a.from_id) /\ has_entity(db, a.to_id) /\ triple_free(db, a)

\* add_relationship: the INSERT; sqlite3.IntegrityError is caught and answered
\* with False, the statement having written nothing
add_relationship_block(db, a, t, fault) ==
    IF fault = "write" THEN Raises(db)
    ELSE IF ~insert_allowed(db, a) THEN Returns(db, FALSE)
    ELSE Returns([db EXCEPT
                    !.rel_seq = @ + 1,
                    !.relationships = @ \cup {[ id |-> db.rel_seq + 1,
                        from_id |-> a.from_id, from_type |-> a.from_type,
                        to_id |-> a.to_id, to_type |-> a.to_type,
                        relation |-> a.relation, metadata |-> json_dumps(a.metadata),
                        created_at |-> t ]}], TRUE)

add_relationship(db, a, t, fault) ==
    connection(db, add_relationship_block(db, a, t, fault), fault)

\* a delete that reports success whether or not a row was there
delete_content_always_true(db, content_id, fault) ==
    LET deleted == [db EXCEPT !.content[content_id] = NoRow]
    IN  IF fault = "write" THEN Raises(db)
        ELSE IF fault = "log" THEN Raises(deleted)
        ELSE Returns(log_change(deleted, "content", content_id, "delete"), TRUE)

\* delete_content: DELETE, and when a row went, _log_change
delete_content_block(db, content_id, fault) ==
    LET rowcount == IF db.content[content_id] # NoRow THEN 1 ELSE 0
        deleted == [db EXCEPT !.content[content_id] = NoRow]
    IN  IF fault = "write" THEN Raises(db)
        ELSE IF rowcount > 0
        THEN IF fault = "log" THEN Raises(deleted)
             ELSE Returns(log_change(deleted, "content", content_id, "delete"), TRUE)
        ELSE Returns(deleted, FALSE)

delete_content(db, content_id, fault) ==
    connection(db, delete_content_block(db, content_id, fault), fault)

\* ON DELETE CASCADE of both foreign keys of relationships
cascade(relationships, entity_id) ==
    {r \in relationships : r.from_id # entity_id /\ r.to_id # entity_id}

\* delete_entity: DELETE (cascading to relationships), and when a row went,
\* _log_change
delete_entity_block(db, entity_id, fault) ==
    LET rowcount == IF db.entities[entity_id] # NoRow THEN 1 ELSE 0
        deleted == [db EXCEPT !.entities[entity_id] = NoRow,
                              !.relationships = cascade(@, entity_id)]
    IN  IF fault = "write" THEN Raises(db)
        ELSE IF rowcount > 0
        THEN IF fault = "log" THEN Raises(deleted)
             ELSE Returns(log_change(deleted, "entities", entity_id, "delete"), TRUE)
        ELSE Returns(db, FALSE)

delete_entity(db, entity_id, fault) ==
    connection(db, delete_entity_block(db, entity_id, fault), fault)

get_entity(db, entity_id) == row_to_dict(db.entities[entity_id])
get_content(db, content_id) == row_to_dict(db.content[content_id])

\* the rows of a set of relationships in rowid order
RECURSIVE by_rowid(_)
by_rowid(rows) ==
    IF rows = {} THEN << >>
    ELSE LET first == CHOOSE r \in rows : \A q \in rows : r.id <= q.id
         IN  <<row_to_dict(first)>> \o by_rowid(rows \ {first})

\* get_relationships: the outgoing rows, then the incoming rows; relation is
\* None ("None") or a relation label
get_relationships(db, entity_id, relation, direction) ==
    LET match(r) == relation = "None" \/ r.relation = relation
        outgoing == {r \in db.relationships : r.from_id = entity_id /\ match(r)}
        incoming == {r \in db.relationships : r.to_id = entity_id /\ match(r)}
    IN  (IF direction \in {"outgoing", "both"} THEN by_rowid(outgoing) ELSE << >>)
        \o (IF direction \in {"incoming", "both"} THEN by_rowid(incoming) ELSE << >>)

get_last_sync(db, source, account) == row_to_dict(db.sync_state[<<source, account>>])

\* a set_last_sync written as INSERT OR IGNORE: the first write of a pair stays
set_last_sync_first_write_wins(db, source, account, last_sync, sync_token, metadata, fault) ==
    IF fault = "write" THEN Raises(db)
    ELSE IF db.sync_state[<<source, account>>] # NoRow THEN Returns(db, NULL)
    ELSE Returns([db EXCEPT !.sync_state[<<source, account>>] =
                    [ source |-> source, account |-> account,
                      last_sync |-> isoformat(last_sync),
                      last_sync_token |-> sync_token,
                      metadata |-> json_dumps(metadata) ]], NULL)

\* set_last_sync: INSERT ... ON CONFLICT(source, account) DO UPDATE
set_last_sync_block(db, source, account, last_sync, sync_token, metadata, fault) ==
    IF fault = "write" THEN Raises(db)
    ELSE Returns([db EXCEPT !.sync_state[<<source, account>>] =
                    [ source |-> source, account |-> account,
                      last_sync |-> isoformat(last_sync),
                      last_sync_token |-> sync_token,
                      metadata |-> json_dumps(metadata) ]], NULL)

set_last_sync(db, source, account, last_sync, sync_token, metadata, fault) ==
    connection(db, set_last_sync_block(db, source, account, last_sync, sync_token,
                                       metadata, fault), fault)

\* ------------------------------------------------------------------------
\* Spec: the public calls of the storage layer, one transaction each
\* ------------------------------------------------------------------------
\* the field values the calls are made with
EntityFields ==
    { [name |-> "Ann", metadata |-> PyNone],
      [name |-> "Ann", metadata |-> dict(0, {})],
      [name |-> "Bob", metadata |-> dict(1, {"k"})] }
ContentFields ==
    { [title |-> "Report", timestamp |-> None_dt],
      [title |-> "Notes", timestamp |-> datetime(0)] }

\* Embedder(): self._cache = {} and a cache directory without entries
NewEmbedder == [cache |-> {}, cache_dir |-> {}]
\* VectorStore(): no collection holds a vector
NewVectorStore == {}
\* ConversationManager() at time 0: no conversation, _last_cleanup the time
\* of construction; next_id is the identity the next context object gets
NewManager == [conversations |-> << >>, last_cleanup |-> 0, next_id |-> 1]
\* no caller has a connection open
NoSessions == << >>
\* an account at the source that holds nothing and has no change history
NoRemote == [items |-> << >>, history |-> << >>]

Init ==
    /\ kg = EmptyDb
    /\ now = 0
    /\ last = [op |-> "init", raised |-> FALSE]
    /\ embedder = NewEmbedder
    /\ vector_store = NewVectorStore
    /\ manager = NewManager
    /\ sessions = NoSessions
    /\ remote = NoRemote

\* the outcome of a storage call becomes the state; a call that raised
\* returned nothing
Call(op, args, fault, out) ==
    /\ kg' = out.db
    /\ last' = IF out.raised THEN [op |-> op, fault |-> fault, raised |-> TRUE]
               ELSE [op |-> op, args |-> args, ret |-> out.ret, raised |-> FALSE]
    /\ UNCHANGED now
    /\ UNCHANGED components

Tick ==
    /\ now < MaxClock
    /\ now' = now + 1
    /\ last' = [op |-> "tick", raised |-> FALSE]
    /\ UNCHANGED kg
    /\ UNCHANGED components

UpsertEntity(F, max_log) ==
    /\ Len(kg.changelog) < max_log
    /\ \E id \in EntityIds, f \in EntityFields, fault \in F :
        LET a == [ entity_id |-> id, entity_type |-> "person", name |-> f.name,
                   source |-> "gmail", source_account |-> NULL, email |-> NULL,
                   metadata |-> f.metadata ]
        IN  Call("upsert_entity", a, fault, upsert_entity(kg, a, now, fault))

UpsertContent(F, max_log) ==
    /\ Len(kg.changelog) < max_log
    /\ \E id \in CallContentIds, f \in ContentFields, fault \in F :
        LET a == [ content_id |-> id, content_type |-> "email", source |-> "gmail",
                   source_account |-> "a", title |-> f.title, body |-> NULL,
                   source_id |-> id, url |-> NULL, timestamp |-> f.timestamp,
                   metadata |-> PyNone ]
        IN  Call("upsert_content", a, fault, upsert_content(kg, a, now, fault))

\* the endpoints add_relationship is called with: entity to entity, an
\* entity to itself, a content id to an entity (as the indexers call it), an
\* entity to a content id
RelEnds ==
    { <<"person:x", "person:y">>, <<"person:x", "person:x">>,
      <<"gmail:a:1", "person:y">>, <<"person:y", "gmail:a:1">> }

AddRelationship(F) ==
    \E ends \in RelEnds, relation \in Relations, fault \in F \ {"log"} :
        LET a == [ from_id |-> ends[1],
                   from_type |-> IF ends[1] \in EntityIds THEN "person" ELSE "email",
                   to_id |-> ends[2],
                   to_type |-> IF ends[2] \in EntityIds THEN "person" ELSE "email",
                   relation |-> relation, metadata |-> PyNone ]
        IN  Call("add_relationship", a, fault, add_relationship(kg, a, now, fault))

DeleteContent(F, max_log) ==
    /\ Len(kg.changelog) < max_log
    /\ \E id \in CallContentIds, fault \in F :
        Call("delete_content", [id |-> id], fault, delete_content(kg, id, fault))

DeleteEntity(F, max_log) ==
    /\ Len(kg.changelog) < max_log
    /\ \E id \in EntityIds, fault \in F :
        Call("delete_entity", [id |-> id], fault, delete_entity(kg, id, fault))

SetLastSync(F, sources, tokens, metadatas) ==
    \E source \in sources, account \in Accounts, sync_token \in tokens,
       metadata \in metadatas, fault \in F \ {"log"} :
        Call("set_last_sync",
             [ source |-> source, account |-> account, last_sync |-> datetime(now),
               sync_token |-> sync_token, metadata |-> metadata ],
             fault,
             set_last_sync(kg, source, account, datetime(now), sync_token, metadata, fault))

\* every call runs to completion
NoFault == {"none"}

Next ==
    \/ Tick
    \/ UpsertEntity(NoFault, MaxLog)
    \/ UpsertContent(NoFault, MaxLog)
    \/ AddRelationship(NoFault)
    \/ DeleteContent(NoFault, MaxLog)
    \/ DeleteEntity(NoFault, MaxLog)

Spec == Init /\ [][Next]_vars

\* ------------------------------------------------------------------------
\* SpecFault: the same calls, any of which may fail at any of its statements
\* ------------------------------------------------------------------------
NextFault ==
    \/ UpsertEntity(Faults, MaxLogFault)
    \/ UpsertContent(Faults, MaxLogFault)
    \/ AddRelationship(Faults)
    \/ DeleteContent(Faults, MaxLogFault)
    \/ DeleteEntity(Faults, MaxLogFault)
    \/ SetLastSync(Faults, {"gmail"}, {"tok1"}, {PyNone})

SpecFault == Init /\ [][NextFault]_vars

\* ------------------------------------------------------------------------
\* SpecSyncState: set_last_sync calls for several (source, account) pairs
\* ------------------------------------------------------------------------
\* the pairs, tokens and metadata arguments set_last_sync is called with
SyncSources == {"gmail", "drive"}
SyncTokens == {NULL, "tok1"}
SyncMetadata == {PyNone, dict(0, {}), dict(1, {"k"})}

NextSyncState ==
    \/ Tick
    \/ SetLastSync(NoFault, SyncSources, SyncTokens, SyncMetadata)

SpecSyncState == Init /\ [][NextSyncState]_vars

\* ------------------------------------------------------------------------
\* The source indexers.  A run is one call of index_all or index_delta; what
\* the source client answers during the run is the run's input.
\* ------------------------------------------------------------------------
\* config.GOOGLE_ACCOUNTS
GOOGLE_ACCOUNTS == {"a"}

\* f"person:{email}"
PersonId(email) == IF email = "x" THEN "person:x" ELSE "person:y"

\* parsed records of a source: native id, title (subject, file name, event
\* summary), the address of one person on it ("" for none) and a body
\* (NULL for none); bodies are shorter than the cut the indexers apply
A1 == [id |-> "1", title |-> "v1", person |-> "", body |-> NULL]
A2 == [id |-> "1", title |-> "v2", person |-> "x", body |-> "text"]
B1 == [id |-> "2", title |-> "v1", person |-> "", body |-> NULL]
NoRecord == [id |-> "None"]

\* how the per-record source call for native id "1" ends: it returns the
\* record, returns None, or raises
FetchOutcomes == {"ok", "none", "error"}
Fetch(rec, bad) == IF rec.id = "1" THEN bad ELSE "ok"

\* a stats dict; stats[key] += 1 raises KeyError for a key the dict lacks
Stats(keys) == [k \in keys |-> 0]
HasKey(stats, key) == key \in DOMAIN stats
Inc(stats, key) == [stats EXCEPT ![key] = @ + 1]

\* outcome of indexing one record
Indexed(db, stats, is_new) == [db |-> db, stats |-> stats, exc |-> FALSE, is_new |-> is_new]
Failed(db, stats) == [db |-> db, stats |-> stats, exc |-> TRUE, is_new |-> FALSE]

\* "x = value" followed by Body(x): the value is computed once
With(value, Body(_)) == CHOOSE out \in {Body(x) : x \in {value}} : TRUE

\* the people loop of _index_message / _index_file / _index_event: upsert the
\* person, count it when new, add the edge from the content id to the person
RECURSIVE index_people(_, _, _, _, _, _, _, _)
index_people(db, source, account, content_id, from_type, people, stats, t) ==
    IF people = << >> THEN Indexed(db, stats, FALSE)
    ELSE LET person == Head(people)
             person_id == PersonId(person.email)
         IN  With(upsert_entity(db,
                      [ entity_id |-> person_id, entity_type |-> "person",
                        name |-> IF person.name # NULL THEN person.name ELSE person.email,
                        email |-> person.email, source |-> source,
                        source_account |-> account, metadata |-> PyNone ], t, "none"),
             LAMBDA up :
               IF up.ret /\ ~HasKey(stats, "people_extracted") THEN Failed(up.db, stats)
               ELSE With(add_relationship(up.db,
                            [ from_id |-> content_id, from_type |-> from_type,
                              to_id |-> person_id, to_type |-> "person",
                              relation |-> person.relation, metadata |-> PyNone ], t, "none"),
                    LAMBDA rel :
                      index_people(rel.db, source, account, content_id, from_type,
                                   Tail(people),
                                   IF up.ret THEN Inc(stats, "people_extracted") ELSE stats,
                                   t)))

\* the upsert_content that ends _index_message / _index_file / _index_event,
\* and the *_indexed counter that follows it
index_content(db, a, stats, indexed_key, t) ==
    With(upsert_content(db, a, t, "none"),
    LAMBDA up :
      IF ~up.ret THEN Indexed(up.db, stats, FALSE)
      ELSE IF HasKey(stats, indexed_key) THEN Indexed(up.db, Inc(stats, indexed_key), TRUE)
      ELSE Failed(up.db, stats))

\* GmailIndexer._extract_people: the From address as sender
gmail_extract_people(parsed) ==
    IF parsed.person = "" THEN << >>
    ELSE << [email |-> parsed.person, name |-> NULL, relation |-> "sender"] >>

gmail_content(account, parsed) ==
    [ content_id |-> ContentId("gmail", account, parsed.id), content_type |-> "email",
      source |-> "gmail", source_account |-> account, title |-> parsed.title,
      body |-> IF parsed.body # NULL THEN parsed.body ELSE "",
      source_id |-> parsed.id, url |-> NULL, timestamp |-> None_dt,
      metadata |-> dict(5, {"thread_id", "from", "to", "labels", "has_attachments"}) ]

\* GmailIndexer._index_message
gmail_index_message(db, account, parsed, stats, t) ==
    With(index_people(db, "gmail", account, ContentId("gmail", account, parsed.id), "email",
                      gmail_extract_people(parsed), stats, t),
    LAMBDA people :
      IF people.exc THEN people
      ELSE index_content(people.db, gmail_content(account, parsed), people.stats,
                         "messages_indexed", t))

\* the stats dicts of GmailIndexer
GmailFullKeys == {"messages_processed", "messages_indexed", "people_extracted", "errors"}
GmailDeltaKeys == {"messages_added", "messages_deleted", "errors"}

\* index_all(account) is called with the default cap
max_messages == 10000

\* the for loop over the stubs of one page of list_messages
RECURSIVE gmail_index_stubs(_, _, _, _, _, _)
gmail_index_stubs(db, stats, stubs, inp, account, t) ==
    IF stubs = << >> THEN [db |-> db, stats |-> stats]
    ELSE LET msg == Head(stubs)
             fetch == Fetch(msg, inp.bad)
         IN  IF fetch = "error"
             THEN gmail_index_stubs(db, Inc(stats, "errors"), Tail(stubs), inp, account, t)
             ELSE IF fetch = "none"
             THEN gmail_index_stubs(db, stats, Tail(stubs), inp, account, t)
             ELSE With(gmail_index_message(db, account, msg, stats, t),
                  LAMBDA r :
                    gmail_index_stubs(r.db,
                                      Inc(r.stats, IF r.exc THEN "errors"
                                                   ELSE "messages_processed"),
                                      Tail(stubs), inp, account, t))

\* outcome of a paging loop: how it ended
Paged(db, stats, listing_failed, completed) ==
    [db |-> db, stats |-> stats, listing_failed |-> listing_failed, completed |-> completed]

\* the while loop of GmailIndexer.index_all, at its p-th list_messages call
RECURSIVE gmail_pages(_, _, _, _, _, _)
gmail_pages(db, stats, p, inp, account, t) ==
    IF ~(stats["messages_processed"] < max_messages) THEN Paged(db, stats, FALSE, FALSE)
    ELSE IF inp.fail_at = p THEN Paged(db, Inc(stats, "errors"), TRUE, FALSE)
    ELSE IF inp.pages[p] = << >> THEN Paged(db, stats, FALSE, TRUE)
    ELSE With(gmail_index_stubs(db, stats, inp.pages[p], inp, account, t),
         LAMBDA r :
           IF p = Len(inp.pages) THEN Paged(r.db, r.stats, FALSE, TRUE)
           ELSE gmail_pages(r.db, r.stats, p + 1, inp, account, t))

\* outcome of a run: the store, what the call returned or that it raised, and
\* how the full index inside it (if any) went
Run(db, ret, raised, ran_full, listing_failed, completed) ==
    [ db |-> db, ret |-> ret, raised |-> raised, ran_full |-> ran_full,
      listing_failed |-> listing_failed, completed |-> completed ]

\* GmailIndexer.index_all: the paging loop, then get_profile and set_last_sync
\* whichever way the loop ended
gmail_index_all(db, account, inp, t) ==
    IF account \notin GOOGLE_ACCOUNTS THEN Run(db, NULL, TRUE, FALSE, FALSE, FALSE)
    ELSE With(gmail_pages(db, Stats(GmailFullKeys), 1, inp, account, t),
         LAMBDA loop :
           IF inp.cursor_fails
           THEN Run(loop.db, NULL, TRUE, TRUE, loop.listing_failed, loop.completed)
           ELSE Run(set_last_sync(loop.db, "gmail", account, datetime(t), inp.cursor,
                                  dict(2, [type |-> "full", stats |-> loop.stats]),
                                  "none").db,
                    loop.stats, FALSE, TRUE, loop.listing_failed, loop.completed))

\* not sync_state or not sync_state.get("last_sync_token")
no_sync_token(sync_state) ==
    sync_state = NoRow \/ sync_state.last_sync_token \in {NULL, ""}

\* a change of a delta listing: a removal of a native id, or a record
Removal(id) == [id |-> id, removed |-> TRUE, rec |-> NoRecord]
Change(rec) == [id |-> rec.id, removed |-> FALSE, rec |-> rec]

\* the history records of list_history: one record per change, an added
\* message under messagesAdded, a deleted one under messagesDeleted
RECURSIVE gmail_history_of(_)
gmail_history_of(changes) ==
    IF changes = << >> THEN << >>
    ELSE LET c == Head(changes)
         IN  << [ messagesAdded |-> IF c.removed THEN << >> ELSE <<c.rec>>,
                  messagesDeleted |-> IF c.removed THEN <<c.id>> ELSE << >> ] >>
             \o gmail_history_of(Tail(changes))

\* "for added in history.get('messagesAdded', [])"
RECURSIVE gmail_added(_, _, _, _, _, _)
gmail_added(db, stats, added, inp, account, t) ==
    IF added = << >> THEN [db |-> db, stats |-> stats]
    ELSE LET msg == Head(added)
             fetch == Fetch(msg, inp.bad)
         IN  IF fetch = "error"
             THEN gmail_added(db, Inc(stats, "errors"), Tail(added), inp, account, t)
             ELSE IF fetch = "none"
             THEN gmail_added(db, stats, Tail(added), inp, account, t)
             ELSE With(gmail_index_message(db, account, msg, stats, t),
                  LAMBDA r :
                    gmail_added(r.db,
                                Inc(r.stats, IF r.exc THEN "errors" ELSE "messages_added"),
                                Tail(added), inp, account, t))

\* "for deleted in history.get('messagesDeleted', [])"
RECURSIVE gmail_deleted(_, _, _, _)
gmail_deleted(db, stats, deleted, account) ==
    IF deleted = << >> THEN [db |-> db, stats |-> stats]
    ELSE With(delete_content(db, ContentId("gmail", account, Head(deleted)), "none"),
         LAMBDA d :
           gmail_deleted(d.db, IF d.ret THEN Inc(stats, "messages_deleted") ELSE stats,
                         Tail(deleted), account))

\* "for history in response.get('history', [])"
RECURSIVE gmail_history(_, _, _, _, _, _)
gmail_history(db, stats, history, inp, account, t) ==
    IF history = << >> THEN [db |-> db, stats |-> stats]
    ELSE With(gmail_added(db, stats, Head(history).messagesAdded, inp, account, t),
         LAMBDA a :
           With(gmail_deleted(a.db, a.stats, Head(history).messagesDeleted, account),
           LAMBDA d : gmail_history(d.db, d.stats, Tail(history), inp, account, t)))

\* '"historyId" in str(e)': the error text of an expired start history id
gmail_token_expired(error) == error = "expired"

\* the try block of GmailIndexer.index_delta after a successful list_history:
\* the history records, then set_last_sync with response.get("historyId",
\* start_history_id)
gmail_delta_apply(db, account, inp, start_history_id, t) ==
    With(gmail_history(db, Stats(GmailDeltaKeys), gmail_history_of(inp.changes), inp,
                       account, t),
    LAMBDA done :
      Run(set_last_sync(done.db, "gmail", account, datetime(t),
                        IF inp.cursor # NULL THEN inp.cursor ELSE start_history_id,
                        dict(2, [type |-> "delta", stats |-> done.stats]), "none").db,
          done.stats, FALSE, FALSE, FALSE, TRUE))

\* a delta sync that goes on with an empty start history id
gmail_index_delta_no_token_check(db, account, inp, full, t) ==
    IF account \notin GOOGLE_ACCOUNTS THEN Run(db, NULL, TRUE, FALSE, FALSE, FALSE)
    ELSE IF inp.error # "none"
    THEN IF gmail_token_expired(inp.error) THEN gmail_index_all(db, account, full, t)
         ELSE Run(db, Inc(Stats(GmailDeltaKeys), "errors"), FALSE, FALSE, TRUE, FALSE)
    ELSE gmail_delta_apply(db, account, inp, NULL, t)

\* GmailIndexer.index_delta; full is what the source answers to the full
\* index the run may fall back to
gmail_index_delta(db, account, inp, full, t) ==
    IF account \notin GOOGLE_ACCOUNTS THEN Run(db, NULL, TRUE, FALSE, FALSE, FALSE)
    ELSE IF no_sync_token(get_last_sync(db, "gmail", account))
    THEN gmail_index_all(db, account, full, t)
    ELSE IF inp.error # "none"
    THEN IF gmail_token_expired(inp.error) THEN gmail_index_all(db, account, full, t)
         ELSE Run(db, Inc(Stats(GmailDeltaKeys), "errors"), FALSE, FALSE, TRUE, FALSE)
    ELSE gmail_delta_apply(db, account, inp,
                           get_last_sync(db, "gmail", account).last_sync_token, t)

\* a cursor the code takes as present ("if sync_token:")
truthy(token) == token \notin {NULL, ""}

\* ------------------------------------------------------------------------
\* DriveIndexer
\* ------------------------------------------------------------------------
DriveFullKeys == {"files_processed", "files_indexed", "content_indexed",
                  "people_extracted", "errors"}
DriveDeltaKeys == {"files_added", "files_updated", "files_deleted", "errors"}

\* index_all(account) is called with the default cap
max_files == 5000

\* the owners of a parsed file
drive_owners(parsed) ==
    IF parsed.person = "" THEN << >>
    ELSE << [email |-> parsed.person, name |-> NULL, relation |-> "owner"] >>

drive_content(account, parsed, body) ==
    [ content_id |-> ContentId("drive", account, parsed.id), content_type |-> "file",
      source |-> "drive", source_account |-> account, title |-> parsed.title,
      body |-> body, source_id |-> parsed.id, url |-> "", timestamp |-> None_dt,
      metadata |-> dict(3, {"mime_type", "size", "parents"}) ]

\* DriveIndexer._index_file with include_content: a record with a body is a
\* file of an indexable MIME type, whose text get_file_content returns ("ok"),
\* fails to download and returns None ("none"), or raises ("error")
drive_index_file(db, account, parsed, stats, bad, t) ==
    With(index_people(db, "drive", account, ContentId("drive", account, parsed.id), "file",
                      drive_owners(parsed), stats, t),
    LAMBDA people :
      LET fetch == IF parsed.body = NULL THEN "skip" ELSE Fetch(parsed, bad)
          body == IF fetch = "ok" THEN parsed.body ELSE NULL
      IN  IF people.exc THEN people
          ELSE IF fetch = "error" THEN Failed(people.db, people.stats)
          ELSE IF fetch = "ok" /\ ~HasKey(people.stats, "content_indexed")
          THEN Failed(people.db, people.stats)
          ELSE index_content(people.db, drive_content(account, parsed, body),
                             IF fetch = "ok" THEN Inc(people.stats, "content_indexed")
                             ELSE people.stats,
                             "files_indexed", t))

\* the for loop over the files of one page of list_files
RECURSIVE drive_index_files(_, _, _, _, _, _)
drive_index_files(db, stats, files, inp, account, t) ==
    IF files = << >> THEN [db |-> db, stats |-> stats]
    ELSE With(drive_index_file(db, account, Head(files), stats, inp.bad, t),
         LAMBDA r :
           drive_index_files(r.db,
                             Inc(r.stats, IF r.exc THEN "errors" ELSE "files_processed"),
                             Tail(files), inp, account, t))

\* the while loop of DriveIndexer.index_all, at its p-th list_files call
RECURSIVE drive_pages(_, _, _, _, _, _)
drive_pages(db, stats, p, inp, account, t) ==
    IF ~(stats["files_processed"] < max_files) THEN Paged(db, stats, FALSE, FALSE)
    ELSE IF inp.fail_at = p THEN Paged(db, Inc(stats, "errors"), TRUE, FALSE)
    ELSE With(drive_index_files(db, stats, inp.pages[p], inp, account, t),
         LAMBDA r :
           IF p = Len(inp.pages) THEN Paged(r.db, r.stats, FALSE, TRUE)
           ELSE drive_pages(r.db, r.stats, p + 1, inp, account, t))

\* DriveIndexer.index_all: the paging loop, then get_start_page_token and
\* set_last_sync whichever way the loop ended
drive_index_all(db, account, inp, t) ==
    IF account \notin GOOGLE_ACCOUNTS THEN Run(db, NULL, TRUE, FALSE, FALSE, FALSE)
    ELSE With(drive_pages(db, Stats(DriveFullKeys), 1, inp, account, t),
         LAMBDA loop :
           IF inp.cursor_fails
           THEN Run(loop.db, NULL, TRUE, TRUE, loop.listing_failed, loop.completed)
           ELSE Run(set_last_sync(loop.db, "drive", account, datetime(t), inp.cursor,
                                  dict(2, [type |-> "full", stats |-> loop.stats]),
                                  "none").db,
                    loop.stats, FALSE, TRUE, loop.listing_failed, loop.completed))

\* the file of a change as list_recent_changes asks for it:
\* file(id, name, mimeType, modifiedTime), so without owners
drive_change_file(rec) == [rec EXCEPT !.person = ""]

\* "for change in response.get('changes', [])"
RECURSIVE drive_changes(_, _, _, _, _, _)
drive_changes(db, stats, changes, inp, account, t) ==
    IF changes = << >> THEN [db |-> db, stats |-> stats]
    ELSE LET c == Head(changes)
         IN  IF c.removed
             THEN With(delete_content(db, ContentId("drive", account, c.id), "none"),
                  LAMBDA d :
                    drive_changes(d.db,
                                  IF d.ret THEN Inc(stats, "files_deleted") ELSE stats,
                                  Tail(changes), inp, account, t))
             ELSE With(drive_index_file(db, account, drive_change_file(c.rec), stats,
                                        inp.bad, t),
                  LAMBDA r :
                    drive_changes(r.db,
                                  Inc(r.stats, IF r.exc THEN "errors"
                                               ELSE IF r.is_new THEN "files_added"
                                               ELSE "files_updated"),
                                  Tail(changes), inp, account, t))

\* DriveIndexer.index_delta; the changes come in one page.  An error of
\* list_recent_changes, whatever it says, is counted and the delta stats
\* are returned
drive_index_delta(db, account, inp, full, t) ==
    IF account \notin GOOGLE_ACCOUNTS THEN Run(db, NULL, TRUE, FALSE, FALSE, FALSE)
    ELSE IF no_sync_token(get_last_sync(db, "drive", account))
    THEN drive_index_all(db, account, full, t)
    ELSE IF inp.error # "none"
    THEN Run(db, Inc(Stats(DriveDeltaKeys), "errors"), FALSE, FALSE, TRUE, FALSE)
    ELSE With(drive_changes(db, Stats(DriveDeltaKeys), inp.changes, inp, account, t),
         LAMBDA done :
           IF truthy(inp.cursor)
           THEN Run(set_last_sync(done.db, "drive", account, datetime(t), inp.cursor,
                                  dict(2, [type |-> "delta", stats |-> done.stats]),
                                  "none").db,
                    done.stats, FALSE, FALSE, FALSE, TRUE)
           ELSE Run(done.db, done.stats, FALSE, FALSE, FALSE, TRUE))

\* ------------------------------------------------------------------------
\* CalendarIndexer
\* ------------------------------------------------------------------------
CalendarFullKeys == {"events_processed", "events_indexed", "people_extracted", "errors"}
CalendarDeltaKeys == {"events_added", "events_updated", "events_deleted", "errors"}

\* all_people of _index_event: the organizer
calendar_all_people(parsed) ==
    IF parsed.person = "" THEN << >>
    ELSE << [email |-> parsed.person, name |-> NULL, relation |-> "organizer"] >>

calendar_content(account, parsed) ==
    [ content_id |-> ContentId("calendar", account, parsed.id), content_type |-> "event",
      source |-> "calendar", source_account |-> account, title |-> parsed.title,
      body |-> parsed.body, source_id |-> parsed.id, url |-> "", timestamp |-> None_dt,
      metadata |-> dict(5, {"end", "is_all_day", "location", "status", "attendee_count"}) ]

\* CalendarIndexer._index_event
calendar_index_event(db, account, parsed, stats, t) ==
    With(index_people(db, "calendar", account, ContentId("calendar", account, parsed.id),
                      "event", calendar_all_people(parsed), stats, t),
    LAMBDA people :
      IF people.exc THEN people
      ELSE index_content(people.db, calendar_content(account, parsed), people.stats,
                         "events_indexed", t))

\* the for loop over the items of one page of list_events
RECURSIVE calendar_index_events(_, _, _, _, _)
calendar_index_events(db, stats, events, account, t) ==
    IF events = << >> THEN [db |-> db, stats |-> stats]
    ELSE With(calendar_index_event(db, account, Head(events), stats, t),
         LAMBDA r :
           calendar_index_events(r.db,
                                 Inc(r.stats, IF r.exc THEN "errors" ELSE "events_processed"),
                                 Tail(events), account, t))

\* the while loop of CalendarIndexer.index_all, at its p-th list_events call;
\* the last page carries nextSyncToken, which is saved if there is one
RECURSIVE calendar_pages(_, _, _, _, _, _)
calendar_pages(db, stats, p, inp, account, t) ==
    IF inp.fail_at = p THEN Paged(db, Inc(stats, "errors"), TRUE, FALSE)
    ELSE With(calendar_index_events(db, stats, inp.pages[p], account, t),
         LAMBDA r :
           IF p < Len(inp.pages) THEN calendar_pages(r.db, r.stats, p + 1, inp, account, t)
           ELSE IF truthy(inp.cursor)
           THEN Paged(set_last_sync(r.db, "calendar", account, datetime(t), inp.cursor,
                                    dict(2, [type |-> "full", stats |-> r.stats]),
                                    "none").db,
                      r.stats, FALSE, TRUE)
           ELSE Paged(r.db, r.stats, FALSE, TRUE))

\* CalendarIndexer.index_all
calendar_index_all(db, account, inp, t) ==
    IF account \notin GOOGLE_ACCOUNTS THEN Run(db, NULL, TRUE, FALSE, FALSE, FALSE)
    ELSE With(calendar_pages(db, Stats(CalendarFullKeys), 1, inp, account, t),
         LAMBDA loop :
           Run(loop.db, loop.stats, FALSE, TRUE, loop.listing_failed, loop.completed))

\* "for event in response.get('items', [])": a removal is a cancelled event
RECURSIVE calendar_changes(_, _, _, _, _)
calendar_changes(db, stats, changes, account, t) ==
    IF changes = << >> THEN [db |-> db, stats |-> stats]
    ELSE LET c == Head(changes)
         IN  IF c.removed
             THEN With(delete_content(db, ContentId("calendar", account, c.id), "none"),
                  LAMBDA d :
                    calendar_changes(d.db,
                                     IF d.ret THEN Inc(stats, "events_deleted") ELSE stats,
                                     Tail(changes), account, t))
             ELSE With(calendar_index_event(db, account, c.rec, stats, t),
                  LAMBDA r :
                    calendar_changes(r.db,
                                     Inc(r.stats, IF r.exc THEN "errors"
                                                  ELSE IF r.is_new THEN "events_added"
                                                  ELSE "events_updated"),
                                     Tail(changes), account, t))

\* '"sync token" in str(e).lower() or "410" in str(e)'
calendar_token_expired(error) == error = "expired"

\* CalendarIndexer.index_delta
calendar_index_delta(db, account, inp, full, t) ==
    IF account \notin GOOGLE_ACCOUNTS THEN Run(db, NULL, TRUE, FALSE, FALSE, FALSE)
    ELSE IF no_sync_token(get_last_sync(db, "calendar", account))
    THEN calendar_index_all(db, account, full, t)
    ELSE IF inp.error # "none"
    THEN IF calendar_token_expired(inp.error)
         THEN calendar_index_all(db, account, full, t)
         ELSE Run(db, Inc(Stats(CalendarDeltaKeys), "errors"), FALSE, FALSE, TRUE, FALSE)
    ELSE With(calendar_changes(db, Stats(CalendarDeltaKeys), inp.changes, account, t),
         LAMBDA done :
           IF truthy(inp.cursor)
           THEN Run(set_last_sync(done.db, "calendar", account, datetime(t), inp.cursor,
                                  dict(2, [type |-> "delta", stats |-> done.stats]),
                                  "none").db,
                    done.stats, FALSE, FALSE, FALSE, TRUE)
           ELSE Run(done.db, done.stats, FALSE, FALSE, FALSE, TRUE))

\* ------------------------------------------------------------------------
\* GitHubIndexer
\* ------------------------------------------------------------------------
GitHubFullKeys == {"repos_indexed", "issues_indexed", "prs_indexed", "commits_indexed",
                   "people_extracted", "errors"}

github_content(kind, rec) ==
    [ content_id |-> GitHubContentId(kind, rec.id),
      content_type |-> IF kind = "repo" THEN "repository" ELSE "commit",
      source |-> "github", source_account |-> GITHUB_USERNAME, title |-> rec.title,
      body |-> IF rec.body # NULL THEN rec.body ELSE "",
      source_id |-> rec.id, url |-> "", timestamp |-> None_dt,
      metadata |-> IF kind = "repo"
                   THEN dict(5, {"language", "stars", "forks", "open_issues", "private"})
                   ELSE dict(2, {"repo", "sha"}) ]

\* GitHubIndexer._index_repo / _index_commit: building the arguments raises
\* KeyError for a record that lacks a field ("error" for native id "1");
\* otherwise upsert_content, then the counter whether or not the row is new
github_index_record(db, kind, rec, stats, bad, t) ==
    IF Fetch(rec, bad) = "error" THEN Failed(db, stats)
    ELSE With(upsert_content(db, github_content(kind, rec), t, "none"),
         LAMBDA up :
           Indexed(up.db,
                   Inc(stats, IF kind = "repo" THEN "repos_indexed" ELSE "commits_indexed"),
                   up.ret))

\* "for repo in repos: self._index_repo(repo, stats)", and the same loop over
\* the commits: nothing catches the exception of one record, it ends the loop
RECURSIVE github_index_records(_, _, _, _, _, _)
github_index_records(db, stats, kind, records, bad, t) ==
    IF records = << >> THEN Indexed(db, stats, FALSE)
    ELSE With(github_index_record(db, kind, Head(records), stats, bad, t),
         LAMBDA r :
           IF r.exc THEN r
           ELSE github_index_records(r.db, r.stats, kind, Tail(records), bad, t))

\* the try block of GitHubIndexer.index_all(include_issues=False,
\* include_prs=False): list_repos and its loop, get_recent_commits and its
\* loop; inp.pages is <<repos, commits>>, inp.fail_at the list call that
\* raises.  Any exception ends the block and is counted once
github_try(db, stats, inp, t) ==
    IF inp.fail_at = 1 THEN Paged(db, Inc(stats, "errors"), TRUE, FALSE)
    ELSE With(github_index_records(db, stats, "repo", inp.pages[1], inp.bad, t),
         LAMBDA repos :
           IF repos.exc THEN Paged(repos.db, Inc(repos.stats, "errors"), FALSE, FALSE)
           ELSE IF inp.fail_at = 2
           THEN Paged(repos.db, Inc(repos.stats, "errors"), TRUE, FALSE)
           ELSE With(github_index_records(repos.db, repos.stats, "commit", inp.pages[2],
                                          inp.bad, t),
                LAMBDA commits :
                  IF commits.exc
                  THEN Paged(commits.db, Inc(commits.stats, "errors"), FALSE, FALSE)
                  ELSE Paged(commits.db, commits.stats, FALSE, TRUE)))

\* GitHubIndexer.index_all: the try block, then set_last_sync without a token
github_index_all(db, inp, t) ==
    With(github_try(db, Stats(GitHubFullKeys), inp, t),
    LAMBDA loop :
      Run(set_last_sync(loop.db, "github", GITHUB_USERNAME, datetime(t), NULL,
                        dict(2, [type |-> "full", stats |-> loop.stats]), "none").db,
          loop.stats, FALSE, TRUE, loop.listing_failed, loop.completed))

\* ------------------------------------------------------------------------
\* SpecSync: runs of the indexers against one store
\* ------------------------------------------------------------------------
\* the number of runs; the clock moves on by one with every run
MaxRuns == 2

\* the accounts runs are asked for; "zz" is not configured
RunAccounts == {"a", "zz"}

\* what the source answers during a full index: the pages of the listing, the
\* listing call that raises (0 for none), the cursor the source hands out at
\* the end and whether asking for it raises, and how the per-record call for
\* native id "1" ends
FullInput(pages, fail_at, cursor, cursor_fails, bad) ==
    [ pages |-> pages, fail_at |-> fail_at, cursor |-> cursor,
      cursor_fails |-> cursor_fails, bad |-> bad ]
FullInputs ==
    { FullInput(<< << >> >>, 0, "tok1", FALSE, "ok"),
      FullInput(<< <<A1, B1>> >>, 0, "tok1", FALSE, "ok"),
      FullInput(<< <<A1, B1>> >>, 0, "tok1", FALSE, "error"),
      FullInput(<< <<A1, B1>> >>, 0, "tok1", FALSE, "none"),
      FullInput(<< <<A2>>, <<B1>> >>, 0, "tok2", FALSE, "ok"),
      FullInput(<< <<A1>>, <<B1>> >>, 2, "tok2", FALSE, "ok"),
      FullInput(<< <<A1>> >>, 1, "tok1", FALSE, "ok"),
      FullInput(<< <<A1>> >>, 0, NULL, FALSE, "ok"),
      FullInput(<< <<B1>> >>, 0, "tok1", TRUE, "ok") }

\* what GitHub answers during a full index: <<repos, commits>>
GitHubInputs ==
    { FullInput(<< <<A1, B1>>, <<B1>> >>, 0, NULL, FALSE, "ok"),
      FullInput(<< <<A1, B1>>, <<B1>> >>, 0, NULL, FALSE, "error"),
      FullInput(<< <<B1>>, <<A1>> >>, 2, NULL, FALSE, "ok") }

\* what the source answers to the full index a delta sync falls back to
FallbackInputs ==
    { FullInput(<< <<A1, B1>> >>, 0, "tok1", FALSE, "ok"),
      FullInput(<< <<A1>> >>, 1, "tok1", FALSE, "ok"),
      FullInput(<< <<B1>> >>, 0, "tok1", TRUE, "ok") }

\* what the source answers during a delta sync: the changes, the error the
\* change listing raises ("none", the source's cursor-expired error, or
\* another one), the new cursor (NULL for none), and the per-record call
DeltaInput(changes, error, cursor, bad) ==
    [changes |-> changes, error |-> error, cursor |-> cursor, bad |-> bad]
DeltaInputs ==
    { DeltaInput(<< >>, "none", "tok2", "ok"),
      DeltaInput(<<Change(A1)>>, "none", "tok2", "ok"),
      DeltaInput(<<Change(A2)>>, "none", "tok2", "ok"),
      DeltaInput(<<Removal("1")>>, "none", "tok2", "ok"),
      DeltaInput(<<Change(B1), Removal("1")>>, "none", NULL, "ok"),
      DeltaInput(<<Change(A1)>>, "none", "tok2", "error"),
      DeltaInput(<<Change(A1)>>, "none", "tok2", "none"),
      DeltaInput(<< >>, "expired", NULL, "ok"),
      DeltaInput(<< >>, "other", NULL, "ok") }
NoInput == [pages |-> "None"]

index_all(source, db, account, inp, t) ==
    CASE source = "gmail" -> gmail_index_all(db, account, inp, t)
      [] source = "drive" -> drive_index_all(db, account, inp, t)
      [] OTHER -> calendar_index_all(db, account, inp, t)

index_delta(source, db, account, inp, full, t) ==
    CASE source = "gmail" -> gmail_index_delta(db, account, inp, full, t)
      [] source = "drive" -> drive_index_delta(db, account, inp, full, t)
      [] OTHER -> calendar_index_delta(db, account, inp, full, t)

\* what a run leaves in last: the call, what the source answered to the full
\* index and to the delta listing inside it, and the outcome
Ran(op, source, account, full, delta, out) ==
    [ op |-> op, source |-> source, account |-> account, full |-> full, delta |-> delta,
      ret |-> out.ret, raised |-> out.raised, ran_full |-> out.ran_full,
      listing_failed |-> out.listing_failed, completed |-> out.completed ]

IndexAll ==
    /\ now < MaxRuns
    /\ \E source \in Sources, account \in RunAccounts, inp \in FullInputs :
          \E out \in {index_all(source, kg, account, inp, now)} :
              /\ kg' = out.db
              /\ last' = Ran("index_all", source, account,
                             IF out.ran_full THEN inp ELSE NoInput, NoInput, out)
    /\ now' = now + 1
    /\ UNCHANGED components

IndexDelta ==
    /\ now < MaxRuns
    /\ \E source \in Sources, account \in RunAccounts,
          inp \in DeltaInputs, full \in FallbackInputs :
          \E out \in {index_delta(source, kg, account, inp, full, now)} :
              LET listed == account \in GOOGLE_ACCOUNTS
                            /\ ~no_sync_token(get_last_sync(kg, source, account))
              IN  /\ kg' = out.db
                  /\ last' = Ran("index_delta", source, account,
                                 IF out.ran_full THEN full ELSE NoInput,
                                 IF listed THEN inp ELSE NoInput, out)
    /\ now' = now + 1
    /\ UNCHANGED components

IndexAllGitHub ==
    /\ now < MaxRuns
    /\ \E inp \in GitHubInputs :
          \E out \in {github_index_all(kg, inp, now)} :
              /\ kg' = out.db
              /\ last' = Ran("index_all", "github", GITHUB_USERNAME, inp, NoInput, out)
    /\ now' = now + 1
    /\ UNCHANGED components

NextSync == IndexAll \/ IndexDelta \/ IndexAllGitHub

SpecSync == Init /\ [][NextSync]_vars

\* ------------------------------------------------------------------------
\* Text: a str is the tuple of its characters, None / a NULL column is
\* None_text; a datetime with a UTC offset is datetime(<<wall, offset>>),
\* wall being the local clock reading and the instant wall - offset
\* ------------------------------------------------------------------------
None_text == <<"None">>
or_empty(text) == IF text = None_text THEN << >> ELSE text

\* str.lower()
lower_char(c) == IF c = "A" THEN "a" ELSE IF c = "B" THEN "b" ELSE c
lower(text) == [i \in 1..Len(text) |-> lower_char(text[i])]

\* text[i : i + len(sub)] == sub
matches_at(text, sub, i) ==
    /\ i + Len(sub) - 1 <= Len(text)
    /\ \A k \in 1..Len(sub) : text[i + k - 1] = sub[k]

\* str.count(sub): the non-overlapping occurrences found scanning from the
\* left; the empty string occurs len(text) + 1 times
RECURSIVE count_from(_, _, _)
count_from(text, sub, i) ==
    IF i + Len(sub) - 1 > Len(text) THEN 0
    ELSE IF matches_at(text, sub, i) THEN 1 + count_from(text, sub, i + Len(sub))
    ELSE count_from(text, sub, i + 1)
count(text, sub) == IF sub = << >> THEN Len(text) + 1 ELSE count_from(text, sub, 1)

\* the SQL LIKE operator of SQLite from pattern position i and text position
\* j: % matches any run of characters, _ any one character, a letter matches
\* itself in either case
RECURSIVE like_from(_, _, _, _)
like_from(pattern, text, i, j) ==
    IF i > Len(pattern) THEN j > Len(text)
    ELSE IF pattern[i] = "%"
    THEN \E k \in j..(Len(text) + 1) : like_from(pattern, text, i + 1, k)
    ELSE /\ j <= Len(text)
         /\ (pattern[i] = "_" \/ lower_char(pattern[i]) = lower_char(text[j]))
         /\ like_from(pattern, text, i + 1, j + 1)

\* column LIKE ?: NULL LIKE ? is NULL, which WHERE reads as false
like(column, pattern) == column # None_text /\ like_from(pattern, column, 1, 1)

\* the text order of two isoformat() strings with non-negative offsets:
\* "YYYY-MM-DDTHH:MM:SS" first, then "+HH:MM"
iso_le(x, y) == x[2][1] < y[2][1] \/ (x[2][1] = y[2][1] /\ x[2][2] <= y[2][2])

\* ------------------------------------------------------------------------
\* KnowledgeGraph.search_content
\* ------------------------------------------------------------------------
\* the WHERE clause: a condition is added for every truthy argument
search_where(row, a) ==
    /\ (a.query # None_text /\ a.query # << >>)
         => (like(row.title, <<"%">> \o a.query \o <<"%">>)
             \/ like(row.body, <<"%">> \o a.query \o <<"%">>))
    /\ a.content_type # NULL => row.type = a.content_type
    /\ a.source # NULL => row.source = a.source
    /\ a.source_account # NULL => row.source_account = a.source_account
    /\ a.since # None_dt => (row.timestamp # << >> /\ iso_le(isoformat(a.since), row.timestamp))
    /\ a.until # None_dt => (row.timestamp # << >> /\ iso_le(row.timestamp, isoformat(a.until)))

\* the order in which the table is scanned, which orders rows of equal timestamp
ScanOrder == <<"gmail:a:1", "gmail:a:2", "drive:a:1", "drive:a:2", "calendar:a:1",
               "calendar:a:2", "github:repo:1", "github:repo:2", "github:commit:r:1",
               "github:commit:r:2">>
scan_position(id) == CHOOSE i \in 1..Len(ScanOrder) : ScanOrder[i] = id

\* ORDER BY timestamp DESC: row x comes before row y; NULL sorts last
comes_before(x, y) ==
    IF x.timestamp = y.timestamp THEN scan_position(x.id) < scan_position(y.id)
    ELSE IF y.timestamp = << >> THEN TRUE
    ELSE IF x.timestamp = << >> THEN FALSE
    ELSE ~iso_le(x.timestamp, y.timestamp)

RECURSIVE order_by_timestamp_desc(_)
order_by_timestamp_desc(rows) ==
    IF rows = {} THEN << >>
    ELSE LET first == CHOOSE x \in rows : \A y \in rows \ {x} : comes_before(x, y)
         IN  <<first>> \o order_by_timestamp_desc(rows \ {first})

\* rows[:n]
take(rows, n) == SubSeq(rows, 1, IF n < Len(rows) THEN n ELSE Len(rows))

\* search_content: SELECT * FROM content WHERE ... ORDER BY timestamp DESC
\* LIMIT ?, each row through _row_to_dict
search_content(db, a) ==
    LET selected == {db.content[id] : id \in {i \in ContentIds :
                        db.content[i] # NoRow /\ search_where(db.content[i], a)}}
        rows == take(order_by_timestamp_desc(selected), a.limit)
    IN  [i \in 1..Len(rows) |-> row_to_dict(rows[i])]

\* ------------------------------------------------------------------------
\* QueryEngine.  Scores are in tenths (0.1 is 1, 0.8 is 8); a list argument
\* is a tuple, None and the empty list (both falsy) the empty tuple; vs is
\* what the embedder and the Vector Store answer during the call
\* ------------------------------------------------------------------------
\* list_collections()
Collections == <<"email", "file">>

\* a chunk id f"{content_id}:chunk:{n}" is <<content_id, n>>;
\* doc_id.rsplit(":chunk:", 1)[0] is the content id
chunk_source_id(doc_id) == doc_id[1]

\* the entries _semantic_search makes of one collection's answer, which
\* holds at most n_results hits; a collection whose search raises adds none
collection_entries(vs, collection, n_results) ==
    LET answer == vs.hits[collection]
        hits == take(answer.hits, n_results)
    IN  IF ~answer.ok THEN << >>
        ELSE [i \in 1..Len(hits) |->
                [ id |-> chunk_source_id(hits[i].doc), chunk_id |-> hits[i].doc,
                  type |-> collection, score |-> 10 - hits[i].distance,
                  search_type |-> "semantic" ]]

RECURSIVE semantic_collections(_, _, _)
semantic_collections(vs, collections, n_results) ==
    IF collections = << >> THEN << >>
    ELSE collection_entries(vs, Head(collections), n_results)
         \o semantic_collections(vs, Tail(collections), n_results)

\* _semantic_search: embed the query (which may raise), then search
\* content_types or every collection
semantic_search(vs, content_types, top_k) ==
    IF vs.embed = "error" THEN [raised |-> TRUE, ret |-> << >>]
    ELSE [raised |-> FALSE,
          ret |-> semantic_collections(vs, IF content_types # << >> THEN content_types
                                           ELSE Collections, top_k)]

\* a score that tells title from body by exact case
keyword_score_case_sensitive(r, query) ==
    LET points == 3 * count(or_empty(r.title), query) + count(or_empty(r.body), query)
    IN  IF points < 8 THEN points ELSE 8

\* min((title_matches * 3 + body_matches) * 0.1, 0.8)
keyword_score(r, query) ==
    LET query_lower == lower(query)
        title_matches == count(lower(or_empty(r.title)), query_lower)
        body_matches == count(lower(or_empty(r.body)), query_lower)
        points == title_matches * 3 + body_matches
    IN  IF points < 8 THEN points ELSE 8

\* the search_content calls of _keyword_search: one per content type, or one
\* for all types
RECURSIVE keyword_rows(_, _, _)
keyword_rows(db, a, content_types) ==
    IF content_types = << >> THEN << >>
    ELSE search_content(db, [query |-> a.query, content_type |-> Head(content_types),
                             source |-> NULL, source_account |-> NULL,
                             since |-> a.since, until |-> a.until, limit |-> a.top_k * 2])
         \o keyword_rows(db, a, Tail(content_types))

\* _keyword_search: the rows, those of the requested sources, each with its
\* score; kw = "error" is a search_content call that raises
keyword_search(db, a, kw) ==
    IF kw = "error" THEN [raised |-> TRUE, ret |-> << >>]
    ELSE LET rows == IF a.content_types # << >> THEN keyword_rows(db, a, a.content_types)
                     ELSE search_content(db, [query |-> a.query, content_type |-> NULL,
                                              source |-> NULL, source_account |-> NULL,
                                              since |-> a.since, until |-> a.until,
                                              limit |-> a.top_k * 2])
             kept == IF a.sources # {} THEN SelectSeq(rows, LAMBDA r : r.source \in a.sources)
                     ELSE rows
         IN  [raised |-> FALSE,
              ret |-> [i \in 1..Len(kept) |->
                         [ id |-> kept[i].id, type |-> kept[i].type,
                           source |-> kept[i].source, title |-> kept[i].title,
                           body |-> kept[i].body, timestamp |-> kept[i].timestamp,
                           score |-> keyword_score(kept[i], a.query),
                           search_type |-> "keyword" ]]]

\* a branch whose exception is not caught
uncaught(out) == out

\* try: ... except Exception: logger.error(...): a branch that raised adds
\* nothing and the search goes on
caught(out) == [raised |-> FALSE, ret |-> IF out.raised THEN << >> ELSE out.ret]

\* appending every hit, seen or not
extend_all(results, hits) == results \o hits

\* for r in hits: if r["id"] not in seen_ids: results.append(r); seen_ids.add(r["id"])
RECURSIVE extend_unseen(_, _)
extend_unseen(results, hits) ==
    IF hits = << >> THEN results
    ELSE extend_unseen(IF \E i \in 1..Len(results) : results[i].id = Head(hits).id
                       THEN results ELSE Append(results, Head(hits)),
                       Tail(hits))

\* a sort that leaves the list as it is
unsorted(results) == results

\* inserting r into a list sorted by descending score, after the entries of
\* equal score
RECURSIVE insert_by_score(_, _)
insert_by_score(sorted, r) ==
    IF sorted = << >> THEN <<r>>
    ELSE IF Head(sorted).score >= r.score THEN <<Head(sorted)>> \o insert_by_score(Tail(sorted), r)
    ELSE <<r>> \o sorted

\* results.sort(key=score, reverse=True): stable
RECURSIVE sort_by_score_desc(_)
sort_by_score_desc(results) ==
    IF results = << >> THEN << >>
    ELSE insert_by_score(sort_by_score_desc(SubSeq(results, 1, Len(results) - 1)),
                         results[Len(results)])

\* the key of activity.sort: x.get("timestamp") or "", the key of x being at
\* least the key of y
timestamp_ge(x, y) ==
    y.timestamp = << >> \/ (x.timestamp # << >> /\ iso_le(y.timestamp, x.timestamp))

\* inserting r into a list sorted by descending timestamp, after the entries
\* of equal timestamp
RECURSIVE insert_by_timestamp(_, _)
insert_by_timestamp(sorted, r) ==
    IF sorted = << >> THEN <<r>>
    ELSE IF timestamp_ge(Head(sorted), r)
    THEN <<Head(sorted)>> \o insert_by_timestamp(Tail(sorted), r)
    ELSE <<r>> \o sorted

\* activity.sort(key=timestamp or "", reverse=True): stable
RECURSIVE sort_by_timestamp_desc(_)
sort_by_timestamp_desc(activity) ==
    IF activity = << >> THEN << >>
    ELSE insert_by_timestamp(sort_by_timestamp_desc(SubSeq(activity, 1, Len(activity) - 1)),
                             activity[Len(activity)])

\* the content of the relationships, in their order: content that is missing
\* or of another type is left out
RECURSIVE activity_of(_, _, _)
activity_of(db, relationships, content_types) ==
    IF relationships = << >> THEN << >>
    ELSE LET content == IF Head(relationships).from_id \in ContentIds
                        THEN get_content(db, Head(relationships).from_id)
                        ELSE NoRow
         IN  (IF content # NoRow /\ (content_types = << >> \/
                                     \E i \in 1..Len(content_types) :
                                         content_types[i] = content.type)
              THEN <<content>> ELSE << >>)
             \o activity_of(db, Tail(relationships), content_types)

\* QueryEngine.get_person_activity; content_types is None (the empty tuple)
\* or a list of types
get_person_activity(db, person_id, content_types, limit) ==
    take(sort_by_timestamp_desc(
             activity_of(db, take(get_relationships(db, person_id, "None", "incoming"), limit),
                         content_types)),
         limit)

\* QueryEngine.search
search(db, vs, kw, a) ==
    With(IF a.use_semantic THEN caught(semantic_search(vs, a.content_types, a.top_k * 2))
         ELSE [raised |-> FALSE, ret |-> << >>],
    LAMBDA semantic :
      With(IF a.use_keyword THEN caught(keyword_search(db, a, kw))
           ELSE [raised |-> FALSE, ret |-> << >>],
      LAMBDA keyword :
        IF semantic.raised \/ keyword.raised THEN [raised |-> TRUE, ret |-> << >>]
        ELSE [raised |-> FALSE,
              ret |-> take(sort_by_score_desc(
                               extend_unseen(extend_unseen(<< >>, semantic.ret),
                                             keyword.ret)),
                           a.top_k)]))

\* ------------------------------------------------------------------------
\* SpecQuery: content is stored, then searched
\* ------------------------------------------------------------------------
MaxQueryLog == 2

QueryRow(content_id, content_type, source, title, body, timestamp) ==
    [ content_id |-> content_id, content_type |-> content_type, source |-> source,
      source_account |-> "a", title |-> title, body |-> body, source_id |-> content_id,
      url |-> NULL, timestamp |-> timestamp, metadata |-> PyNone ]
QueryRows ==
    { QueryRow("gmail:a:1", "email", "gmail", <<"A", "b">>, <<"a", "a">>, datetime(<<3, 2>>)),
      QueryRow("gmail:a:2", "email", "gmail", <<"a", "A", "a">>, <<"b">>, datetime(<<2, 0>>)),
      QueryRow("drive:a:1", "file", "drive", <<"b">>, None_text, None_dt) }

SearchContentArgs ==
    [ query : {None_text, <<"a">>, <<"_">>}, content_type : {NULL, "email"},
      source : {NULL}, source_account : {NULL},
      since : {None_dt, datetime(<<2, 0>>)}, until : {None_dt}, limit : {1, 100} ]
    \cup
    [ query : {None_text}, content_type : {NULL},
      source : {NULL, "gmail"}, source_account : {NULL, "a"},
      since : {None_dt}, until : {None_dt, datetime(<<2, 0>>)}, limit : {100} ]

Hit(content_id, chunk, distance) == [doc |-> <<content_id, chunk>>, distance |-> distance]
Answer(hits) == [ok |-> TRUE, hits |-> hits]
Unavailable == [ok |-> FALSE, hits |-> << >>]
VectorAnswers ==
    { [embed |-> "error", hits |-> [c \in {"email", "file"} |-> Answer(<< >>)]],
      [embed |-> "ok", hits |-> [c \in {"email", "file"} |->
            IF c = "email" THEN Answer(<<Hit("gmail:a:1", 0, 1)>>) ELSE Answer(<< >>)]],
      [embed |-> "ok", hits |-> [c \in {"email", "file"} |->
            IF c = "email"
            THEN Answer(<<Hit("gmail:a:2", 0, 1), Hit("gmail:a:1", 0, 8), Hit("gmail:a:1", 1, 9)>>)
            ELSE Answer(<<Hit("drive:a:1", 0, 5)>>)]],
      [embed |-> "ok", hits |-> [c \in {"email", "file"} |->
            IF c = "email" THEN Unavailable ELSE Answer(<<Hit("drive:a:1", 0, 3)>>)]] }

SearchArgs ==
    [ query : {<<"a">>}, content_types : {<< >>, <<"email">>}, sources : {{}, {"gmail"}},
      since : {None_dt, datetime(<<2, 0>>)}, until : {None_dt}, top_k : {2},
      use_semantic : {TRUE}, use_keyword : {TRUE} ]
    \cup
    [ query : {<<"a">>, <<"_">>, <<"a", "A">>}, content_types : {<<"email", "file">>},
      sources : {{}},
      since : {None_dt}, until : {None_dt}, top_k : {1, 2},
      use_semantic : {TRUE}, use_keyword : BOOLEAN ]
    \cup
    [ query : {<<"a">>}, content_types : {<<"email", "file">>}, sources : {{}},
      since : {None_dt}, until : {None_dt}, top_k : {1, 2},
      use_semantic : {FALSE}, use_keyword : {TRUE} ]

\* what the embedder and the Vector Store answer, and whether search_content
\* works, during one search
Outages ==
    (VectorAnswers \X {"ok"})
    \cup ({vs \in VectorAnswers : vs.hits["email"].ok /\ Len(vs.hits["email"].hits) # 1}
         \X {"error"})

IndexContent ==
    /\ Len(kg.changelog) < MaxQueryLog
    /\ \E a \in QueryRows :
          \E out \in {upsert_content(kg, a, now, "none")} :
              /\ kg' = out.db
              /\ last' = [op |-> "upsert_content", raised |-> FALSE]
    /\ UNCHANGED now
    /\ UNCHANGED components

SearchContent ==
    /\ \E a \in SearchContentArgs :
          \E out \in {search_content(kg, a)} :
              last' = [op |-> "search_content", raised |-> FALSE, args |-> a, ret |-> out]
    /\ UNCHANGED <<kg, now>>
    /\ UNCHANGED components

Search ==
    /\ \E a \in SearchArgs, outage \in Outages :
          \E out \in {search(kg, outage[1], outage[2], a)} :
              last' = [op |-> "search", raised |-> out.raised, args |-> a,
                       vs |-> outage[1], kw |-> outage[2], ret |-> out.ret]
    /\ UNCHANGED <<kg, now>>
    /\ UNCHANGED components

NextQuery == IndexContent \/ SearchContent \/ Search

SpecQuery == Init /\ [][NextQuery]_vars

\* ------------------------------------------------------------------------
\* Embedder.  A vector is <<"vec", input>>, the provider's embedding of the
\* input it was sent; self._cache and the files of the cache directory are
\* sets of [key, embedding] entries, at most one per key
\* ------------------------------------------------------------------------
\* config.EMBEDDING_BATCH_SIZE, the texts sent in one provider call
EMBEDDING_BATCH_SIZE == 2
\* stop_after_attempt(3)
stop_after_attempt == 3

\* the text "long" is longer than max_tokens * 4 characters, "lon" its
\* first max_tokens * 4 characters
truncate_text(text) == IF text = "long" THEN "lon" ELSE text

\* hashlib.sha256(text.encode()).hexdigest()[:16]
cache_key(text) == <<"sha256", text>>

in_cache(cache, key) == \E entry \in cache : entry.key = key
cached(cache, key) == (CHOOSE entry \in cache : entry.key = key).embedding
\* cache[key] = embedding, and open(entry_file, "w")
store(cache, key, embedding) ==
    {entry \in cache : entry.key # key} \cup {[key |-> key, embedding |-> embedding]}

\* the provider's response.data for a batch: one item per input, carrying
\* the input's index, in the order the provider chose
response_data(batch, reversed) ==
    [n \in 1..Len(batch) |->
        LET i == IF reversed THEN Len(batch) + 1 - n ELSE n
        IN  [index |-> i - 1, embedding |-> <<"vec", batch[i]>>]]

\* batch_embeddings[item.index] = item.embedding for every item
batch_embeddings(data) ==
    [i \in 1..Len(data) |->
        (CHOOSE n \in 1..Len(data) : data[n].index = i - 1) ]
extract_embeddings(data) ==
    LET at == batch_embeddings(data) IN [i \in 1..Len(data) |-> data[at[i]].embedding]

\* one run of the body of _embed_batch from the batch that starts at text i:
\* call is the number of the provider call, fail_call the call that raises
RECURSIVE embed_batches(_, _, _, _, _)
embed_batches(texts, i, call, fail_call, reversed) ==
    IF i > Len(texts) THEN [raised |-> FALSE, ret |-> << >>, calls |-> call - 1]
    ELSE IF call = fail_call THEN [raised |-> TRUE, ret |-> << >>, calls |-> call]
    ELSE LET last_i == IF i + EMBEDDING_BATCH_SIZE - 1 < Len(texts)
                       THEN i + EMBEDDING_BATCH_SIZE - 1 ELSE Len(texts)
             batch == [k \in 1..(last_i - i + 1) |-> truncate_text(texts[i + k - 1])]
             here == extract_embeddings(response_data(batch, reversed))
         IN  With(embed_batches(texts, last_i + 1, call + 1, fail_call, reversed),
             LAMBDA rest : [rest EXCEPT !.ret = here \o @])

\* an _embed_batch without @retry: the body is run once
embed_batch_once(texts, script, attempt, calls, reversed) ==
    With(embed_batches(texts, 1, 1, script[attempt], reversed),
    LAMBDA run : [ raised |-> run.raised, ret |-> run.ret,
                   calls |-> calls + run.calls, attempts |-> attempt ])

\* _embed_batch under @retry(stop=stop_after_attempt(3), wait=...): the body
\* is run again from the start after a failure, and the failure of the last
\* attempt is raised; script[k] is the provider call that raises in attempt k
\* (0: none)
RECURSIVE embed_batch_retry(_, _, _, _, _)
embed_batch_retry(texts, script, attempt, calls, reversed) ==
    With(embed_batches(texts, 1, 1, script[attempt], reversed),
    LAMBDA run :
      IF run.raised /\ attempt < stop_after_attempt
      THEN embed_batch_retry(texts, script, attempt + 1, calls + run.calls, reversed)
      ELSE [ raised |-> run.raised, ret |-> run.ret,
             calls |-> calls + run.calls, attempts |-> attempt ])

\* the outcome of an Embedder call: the embedder after it, what it returned,
\* the provider calls and the attempts it made
Embedded(e, raised, ret, calls, attempts) ==
    [embedder |-> e, raised |-> raised, ret |-> ret, calls |-> calls, attempts |-> attempts]

\* Embedder.embed
embed(e, text, script, reversed) ==
    IF in_cache(e.cache, cache_key(text))
    THEN Embedded(e, FALSE, cached(e.cache, cache_key(text)), 0, 0)
    ELSE With(embed_batch_retry(<<text>>, script, 1, 0, reversed),
         LAMBDA new :
           IF new.raised THEN Embedded(e, TRUE, << >>, new.calls, new.attempts)
           ELSE Embedded([ cache |-> store(e.cache, cache_key(text), new.ret[1]),
                           cache_dir |-> store(e.cache_dir, cache_key(text), new.ret[1]) ],
                         FALSE, new.ret[1], new.calls, new.attempts))

\* the indices of texts that are not in the cache, in order
to_embed_indices(e, texts) ==
    SelectSeq([i \in 1..Len(texts) |-> i],
              LAMBDA i : ~in_cache(e.cache, cache_key(texts[i])))

\* for idx, embedding in zip(to_embed_indices, new_embeddings): cache it
RECURSIVE cache_results(_, _, _, _)
cache_results(e, texts, indices, embeddings) ==
    IF indices = << >> \/ embeddings = << >> THEN e
    ELSE cache_results([ cache |-> store(e.cache, cache_key(texts[Head(indices)]),
                                         Head(embeddings)),
                         cache_dir |-> store(e.cache_dir, cache_key(texts[Head(indices)]),
                                             Head(embeddings)) ],
                       texts, Tail(indices), Tail(embeddings))

\* results in the order they were appended: the cache hits, then the new
\* embeddings
results_unsorted(e, texts, indices, embeddings) ==
    LET hits == SelectSeq([i \in 1..Len(texts) |-> i],
                          LAMBDA i : in_cache(e.cache, cache_key(texts[i])))
    IN  [k \in 1..Len(hits) |-> cached(e.cache, cache_key(texts[hits[k]]))] \o embeddings

\* results.sort(key=lambda x: x[0]) over the (index, embedding) pairs of the
\* hits and of zip(to_embed_indices, new_embeddings), then the embeddings
results_sorted(e, texts, indices, embeddings) ==
    LET zipped == IF Len(indices) < Len(embeddings) THEN Len(indices) ELSE Len(embeddings)
        has(i) == in_cache(e.cache, cache_key(texts[i]))
                  \/ \E k \in 1..zipped : indices[k] = i
        kept == SelectSeq([i \in 1..Len(texts) |-> i], has)
    IN  [n \in 1..Len(kept) |->
            IF in_cache(e.cache, cache_key(texts[kept[n]]))
            THEN cached(e.cache, cache_key(texts[kept[n]]))
            ELSE embeddings[CHOOSE k \in 1..zipped : indices[k] = kept[n]]]

\* Embedder.embed_batch
embed_batch(e, texts, script, reversed) ==
    LET indices == to_embed_indices(e, texts)
        to_embed == [k \in 1..Len(indices) |-> texts[indices[k]]]
    IN  IF to_embed = << >>
        THEN Embedded(e, FALSE, results_sorted(e, texts, indices, << >>), 0, 0)
        ELSE With(embed_batch_retry(to_embed, script, 1, 0, reversed),
             LAMBDA new :
               IF new.raised THEN Embedded(e, TRUE, << >>, new.calls, new.attempts)
               ELSE Embedded(cache_results(e, texts, indices, new.ret), FALSE,
                             results_sorted(e, texts, indices, new.ret),
                             new.calls, new.attempts))

\* Embedder(cache_dir=...) on a directory that has entries: self._cache = {},
\* and _load_cache reads cache_index.json, which nothing writes, and loads
\* no entry
Embedder_init(cache_dir) == [cache |-> {}, cache_dir |-> cache_dir]

\* ------------------------------------------------------------------------
\* SpecEmbed: calls of one Embedder, and its restarts
\* ------------------------------------------------------------------------
EmbedTexts == {"a", "b", "long"}
TextLists ==
    { << >>, <<"a">>, <<"a", "b">>, <<"b", "a">>, <<"a", "a">>,
      <<"a", "b", "long">>, <<"long", "b", "a">>, <<"b", "a", "b">>,
      <<"long", "a", "b", "a">> }
\* the provider call that raises in each attempt
Scripts == { <<0, 0, 0>>, <<1, 0, 0>>, <<2, 1, 0>>, <<1, 1, 1>>, <<2, 2, 2>> }

Embed ==
    /\ \E text \in EmbedTexts, script \in Scripts :
          \E out \in {embed(embedder, text, script, FALSE)} :
              /\ embedder' = out.embedder
              /\ last' = [ op |-> "embed", raised |-> out.raised, texts |-> <<text>>,
                           script |-> script, ret |-> out.ret, calls |-> out.calls,
                           attempts |-> out.attempts,
                           misses |-> Len(to_embed_indices(embedder, <<text>>)) ]
    /\ UNCHANGED <<kg, now, vector_store, manager, sessions, remote>>

EmbedBatch ==
    /\ \E texts \in TextLists, script \in Scripts, reversed \in BOOLEAN :
          \E out \in {embed_batch(embedder, texts, script, reversed)} :
              /\ embedder' = out.embedder
              /\ last' = [ op |-> "embed_batch", raised |-> out.raised, texts |-> texts,
                           script |-> script, ret |-> out.ret, calls |-> out.calls,
                           attempts |-> out.attempts,
                           misses |-> Len(to_embed_indices(embedder, texts)) ]
    /\ UNCHANGED <<kg, now, vector_store, manager, sessions, remote>>

Restart ==
    /\ embedder' = Embedder_init(embedder.cache_dir)
    /\ last' = [op |-> "restart", raised |-> FALSE]
    /\ UNCHANGED <<kg, now, vector_store, manager, sessions, remote>>

NextEmbed == Embed \/ EmbedBatch \/ Restart

SpecEmbed == Init /\ [][NextEmbed]_vars

\* ------------------------------------------------------------------------
\* TextChunker.  A text is a tuple of characters; a chunker is its
\* configuration [chunk_size, chunk_overlap, min_chunk_size]
\* ------------------------------------------------------------------------
\* \s and str.strip() over the characters of the model, [.!?] and [A-Z]
whitespace == {" ", "\n", "\t"}
terminators == {".", "!", "?"}
capitals == {"A", "B", "C"}

RECURSIVE lstrip(_)
lstrip(text) ==
    IF text # << >> /\ Head(text) \in whitespace THEN lstrip(Tail(text)) ELSE text
RECURSIVE rstrip(_)
rstrip(text) ==
    IF text # << >> /\ text[Len(text)] \in whitespace
    THEN rstrip(SubSeq(text, 1, Len(text) - 1)) ELSE text
\* str.strip()
strip(text) == rstrip(lstrip(text))

\* " ".join(parts)
RECURSIVE join(_)
join(parts) ==
    IF parts = << >> THEN << >>
    ELSE IF Len(parts) = 1 THEN parts[1]
    ELSE parts[1] \o <<" ">> \o join(Tail(parts))

\* the end of the longest run of whitespace that starts at position p (the
\* positions are those of Python: 0 is before the first character)
RECURSIVE run_end(_, _)
run_end(text, p) ==
    IF p < Len(text) /\ text[p + 1] \in whitespace THEN run_end(text, p + 1) ELSE p

\* the end of the match of sentence_pattern that starts at position p, or -1:
\* (?<=[.!?])\s+(?=[A-Z]) | (?<=\n)\s*(?=\S)
match_at(text, p) ==
    LET e == run_end(text, p)
    IN  IF p < 1 \/ e >= Len(text) THEN -1
        ELSE IF text[p] \in terminators /\ e > p /\ text[e + 1] \in capitals THEN e
        ELSE IF text[p] = "\n" THEN e
        ELSE -1

\* the first match at or after start; an empty match is not taken at the
\* position where the previous match, itself empty, ended
RECURSIVE search_from(_, _, _, _)
search_from(text, p, start, must_advance) ==
    IF p > Len(text) THEN <<-1, -1>>
    ELSE LET e == match_at(text, p)
         IN  IF e >= 0 /\ ~(must_advance /\ p = start /\ e = p) THEN <<p, e>>
             ELSE search_from(text, p + 1, start, must_advance)

\* re.split(sentence_pattern, text)
RECURSIVE re_split(_, _, _, _)
re_split(text, prev, start, must_advance) ==
    With(search_from(text, start, start, must_advance),
    LAMBDA found :
      IF found[1] < 0 THEN << SubSeq(text, prev + 1, Len(text)) >>
      ELSE << SubSeq(text, prev + 1, found[1]) >>
           \o re_split(text, found[2], found[2], found[2] = found[1]))

\* the loop of _split_into_sentences over the parts
RECURSIVE sentences_of(_, _, _)
sentences_of(text, parts, current_pos) ==
    IF parts = << >> THEN << >>
    ELSE LET part == Head(parts)
             here == IF strip(part) # << >>
                     THEN << [start |-> current_pos, sentence |-> strip(part)] >>
                     ELSE << >>
         IN  here \o sentences_of(text, Tail(parts), run_end(text, current_pos + Len(part)))

\* TextChunker._split_into_sentences
split_into_sentences(text) == sentences_of(text, re_split(text, 0, 0, FALSE), 0)

\* the loop of _get_overlap, from the last sentence backwards
RECURSIVE overlap_sentences(_, _, _)
overlap_sentences(sentences, target_length, overlap_length) ==
    IF sentences = << >> THEN << >>
    ELSE LET sentence == sentences[Len(sentences)]
         IN  IF overlap_length + Len(sentence) > target_length THEN << >>
             ELSE overlap_sentences(SubSeq(sentences, 1, Len(sentences) - 1), target_length,
                                    overlap_length + Len(sentence) + 1)
                  \o <<sentence>>

\* an overlap of the whole previous chunk
get_overlap_whole(sentences, target_length) == join(sentences)

\* TextChunker._get_overlap
get_overlap(sentences, target_length) ==
    join(overlap_sentences(sentences, target_length, 0))

Chunk(text, start_char, end_char, chunk_index, metadata) ==
    [ text |-> text, start_char |-> start_char, end_char |-> end_char,
      chunk_index |-> chunk_index, metadata |-> metadata ]

\* the chunk made of the accumulated sentences
emit(c, metadata) ==
    Chunk(strip(join(c.current_chunk)), c.current_start,
          c.current_start + Len(join(c.current_chunk)), c.chunk_index, metadata)

\* the loop of chunk over the sentences; c is
\* [chunks, current_chunk, current_start, current_length, chunk_index]
RECURSIVE accumulate(_, _, _, _)
accumulate(self, sentences, c, metadata) ==
    IF sentences = << >> THEN c
    ELSE LET sentence == Head(sentences).sentence
             sentence_start == Head(sentences).start
             overlap_text == get_overlap(c.current_chunk, self.chunk_overlap)
             seeded ==
                 IF c.current_length + Len(sentence) > self.chunk_size
                    /\ c.current_chunk # << >>
                 THEN [ chunks |-> Append(c.chunks, emit(c, metadata)),
                        current_chunk |-> IF overlap_text # << >> THEN <<overlap_text>>
                                          ELSE << >>,
                        current_start |-> sentence_start - Len(overlap_text),
                        current_length |-> Len(overlap_text),
                        chunk_index |-> c.chunk_index + 1 ]
                 ELSE c
         IN  With(seeded, LAMBDA d :
               accumulate(self, Tail(sentences),
                          [d EXCEPT !.current_chunk = Append(@, sentence),
                                    !.current_length = @ + Len(sentence) + 1],
                          metadata))

\* the last chunk is kept whatever its length
last_chunk_kept(self, c, metadata) ==
    IF c.current_chunk = << >> THEN c.chunks
    ELSE Append(c.chunks, emit(c, metadata))

\* a merge that gives the merged chunk the index of the leftover
last_chunk_merged_at_its_index(self, c, metadata) ==
    IF c.current_chunk = << >> THEN c.chunks
    ELSE LET chunk_text == join(c.current_chunk)
         IN  IF Len(chunk_text) >= self.min_chunk_size
             THEN Append(c.chunks, emit(c, metadata))
             ELSE IF c.chunks # << >>
             THEN LET prev_chunk == c.chunks[Len(c.chunks)]
                      merged_text == prev_chunk.text \o <<" ">> \o strip(chunk_text)
                  IN  [c.chunks EXCEPT ![Len(c.chunks)] =
                          Chunk(merged_text, prev_chunk.start_char,
                                prev_chunk.start_char + Len(merged_text),
                                c.chunk_index, metadata)]
             ELSE c.chunks

\* "Don't forget the last chunk": kept when it has min_chunk_size characters,
\* merged into the previous chunk when there is one
last_chunk(self, c, metadata) ==
    IF c.current_chunk = << >> THEN c.chunks
    ELSE LET chunk_text == join(c.current_chunk)
         IN  IF Len(chunk_text) >= self.min_chunk_size
             THEN Append(c.chunks, emit(c, metadata))
             ELSE IF c.chunks # << >>
             THEN LET prev_chunk == c.chunks[Len(c.chunks)]
                      merged_text == prev_chunk.text \o <<" ">> \o strip(chunk_text)
                  IN  [c.chunks EXCEPT ![Len(c.chunks)] =
                          Chunk(merged_text, prev_chunk.start_char,
                                prev_chunk.start_char + Len(merged_text),
                                prev_chunk.chunk_index, metadata)]
             ELSE c.chunks

\* the chunks of a text of min_chunk_size characters or more
chunk_sentences(self, text, metadata) ==
    With(accumulate(self, split_into_sentences(text),
                    [ chunks |-> << >>, current_chunk |-> << >>, current_start |-> 0,
                      current_length |-> 0, chunk_index |-> 0 ],
                    metadata),
         LAMBDA c : last_chunk(self, c, metadata))

\* a chunk without the case of the short text
chunk_always_split(self, text, metadata) ==
    IF text = << >> THEN << >> ELSE chunk_sentences(self, text, metadata)

\* TextChunker.chunk
chunk(self, text, metadata) ==
    IF text = << >> \/ Len(text) < self.min_chunk_size
    THEN IF text # << >> THEN << Chunk(strip(text), 0, Len(text), 0, metadata) >>
         ELSE << >>
    ELSE chunk_sentences(self, text, metadata)

\* TextChunker.chunk_document
chunk_document(self, title, body, source_id, source_type, metadata) ==
    LET base_metadata == metadata @@ [ source_id |-> source_id, source_type |-> source_type,
                                       title |-> title ]
        full_text == IF title # << >> THEN title \o <<"\n", "\n">> \o body ELSE body
    IN  With(chunk(self, full_text, base_metadata),
        LAMBDA chunks :
          [i \in 1..Len(chunks) |->
              [chunks[i] EXCEPT !.metadata =
                  [chunk_index |-> chunks[i].chunk_index, total_chunks |-> Len(chunks)]
                  @@ base_metadata]])

\* ------------------------------------------------------------------------
\* SpecChunk: one chunker configuration, one text, and the call of chunk or
\* of chunk_document
\* ------------------------------------------------------------------------
MaxTextLen == 4
MaxSentences == 4

RECURSIVE TextsOfLen(_)
TextsOfLen(n) ==
    IF n = 0 THEN {<< >>}
    ELSE { <<ch>> \o t : ch \in {"A", "b", ".", " ", "\n"}, t \in TextsOfLen(n - 1) }

\* the sentences that paragraphs are made of
Sentence(n) == CASE n = 1 -> <<"A", ".">>
                 [] n = 2 -> <<"B", "b", ".">>
                 [] n = 3 -> <<"C", "b", "b", "b", ".">>
Separators == { <<" ">>, <<"\n", "\n">> }

RECURSIVE joined_by(_, _)
joined_by(parts, separator) ==
    IF Len(parts) = 1 THEN parts[1]
    ELSE parts[1] \o separator \o joined_by(Tail(parts), separator)

Paragraphs ==
    UNION { { joined_by([i \in 1..n |-> Sentence(f[i])], separator) :
                f \in [1..n -> 1..3], separator \in Separators } : n \in 1..MaxSentences }

ChunkTexts == (UNION { TextsOfLen(n) : n \in 0..MaxTextLen }) \cup Paragraphs

TextChunker(chunk_size, chunk_overlap, min_chunk_size) ==
    [ chunk_size |-> chunk_size, chunk_overlap |-> chunk_overlap,
      min_chunk_size |-> min_chunk_size ]

Chunkers ==
    { TextChunker(8, 3, 0),  TextChunker(8, 3, 4),  TextChunker(6, 5, 3),
      TextChunker(12, 6, 5), TextChunker(5, 0, 2),  TextChunker(7, 2, 9),
      TextChunker(4, 4, 2) }

InitChunk ==
    /\ kg = EmptyDb
    /\ now = 0
    /\ embedder = NewEmbedder
    /\ vector_store = NewVectorStore
    /\ manager = NewManager
    /\ sessions = NoSessions
    /\ remote = NoRemote
    /\ \E self \in Chunkers, text \in ChunkTexts :
          last = [op |-> "chunker", raised |-> FALSE, self |-> self, text |-> text]

ChunkText ==
    /\ last.op = "chunker"
    /\ last' = [ op |-> "chunk", raised |-> FALSE, self |-> last.self, text |-> last.text,
                 ret |-> chunk(last.self, last.text, PyNone) ]
    /\ UNCHANGED <<kg, now, components>>

\* the titles and the metadata chunk_document is called with: no title or
\* a title, no metadata or a metadata that has a chunk_index of its own
Titles == { << >>, <<"A", ".">> }
Metadatas == { << >>, [chunk_index |-> 7] }

ChunkDocument ==
    /\ last.op = "chunker"
    /\ \E title \in Titles, metadata \in Metadatas :
          last' = [ op |-> "chunk_document", raised |-> FALSE, self |-> last.self,
                    text |-> last.text, title |-> title, metadata |-> metadata,
                    ret |-> chunk_document(last.self, title, last.text, "id", "file",
                                           metadata) ]
    /\ UNCHANGED <<kg, now, components>>

NextChunk == ChunkText \/ ChunkDocument

SpecChunk == InitChunk /\ [][NextChunk]_vars

\* ------------------------------------------------------------------------
\* VectorStore.  A collection's vectors are records [collection, id,
\* embedding, document, metadata], at most one per collection and id; a chunk
\* id f"{source_id}:chunk:{n}" is <<source_id, n>>; a Python dict is a
\* function of its keys
\* ------------------------------------------------------------------------
\* coll.upsert(ids, embeddings, documents, metadatas)
RECURSIVE add(_, _, _, _, _, _)
add(vs, collection, ids, embeddings, documents, metadatas) ==
    IF ids = << >> THEN vs
    ELSE add({v \in vs : ~(v.collection = collection /\ v.id = Head(ids))}
               \cup {[ collection |-> collection, id |-> Head(ids),
                       embedding |-> Head(embeddings), document |-> Head(documents),
                       metadata |-> Head(metadatas) ]},
             collection, Tail(ids), Tail(embeddings), Tail(documents), Tail(metadatas))

\* a where filter {key: value}: the vectors whose metadata has the value
where_matches(v, where) ==
    \A key \in DOMAIN where : key \in DOMAIN v.metadata /\ v.metadata[key] = where[key]

\* a delete by the id the filter names
delete_by_id(vs, collection, ids, where) ==
    {v \in vs : ~(v.collection = collection /\ v.id[1] = where["source_id"])}

\* VectorStore.delete: by ids when given, else by the where filter when given
delete(vs, collection, ids, where) ==
    IF ids # << >>
    THEN {v \in vs : ~(v.collection = collection /\ \E i \in 1..Len(ids) : v.id = ids[i])}
    ELSE IF DOMAIN where # {}
    THEN {v \in vs : ~(v.collection = collection /\ where_matches(v, where))}
    ELSE vs

\* ------------------------------------------------------------------------
\* SemanticIndexer
\* ------------------------------------------------------------------------
\* TextChunker() and EmailChunker(): the defaults 1000 / 200 / 100 and
\* 800 / 150 / 10, scaled to the texts of the model
chunk_size == 8
chunk_overlap == 3
min_chunk_size == 4
email_chunk_size == 30
email_chunk_overlap == 8
email_min_chunk_size == 3
text_chunker == TextChunker(chunk_size, chunk_overlap, min_chunk_size)
email_chunker == TextChunker(email_chunk_size, email_chunk_overlap, email_min_chunk_size)

\* a metadata value that is a list, not a dict
PyList == [py |-> "list", len |-> 1, items |-> <<"x">>]
\* metadata or {}
or_dict(metadata) == IF metadata.py = "dict" /\ metadata.len > 0 THEN metadata.items ELSE << >>
\* dict.get(key, default)
get(d, key, default) == IF key \in DOMAIN d THEN d[key] ELSE default

\* f"Subject: {subject}\nFrom: {from_addr}\nTo: {to_addr}"
header(subject, from_addr, to_addr) ==
    <<"S", "u", "b", "j", "e", "c", "t", ":", " ">> \o subject
    \o <<"\n", "F", "r", "o", "m", ":", " ">> \o from_addr
    \o <<"\n", "T", "o", ":", " ">> \o to_addr

\* EmailChunker.chunk_email
chunk_email(subject, body, from_addr, to_addr, message_id, metadata) ==
    LET base_metadata == metadata @@ [ source_id |-> message_id, source_type |-> "email",
                                       subject |-> subject, from |-> from_addr,
                                       to |-> to_addr ]
    IN  chunk(email_chunker, header(subject, from_addr, to_addr) \o <<"\n", "\n">> \o body,
              base_metadata)

\* SemanticIndexer._chunk_content; a metadata that is not a dict makes
\* **metadata raise
chunk_content(content) ==
    LET title == or_empty(content.title)
        body == or_empty(content.body)
        metadata == or_dict(content.metadata)
        base_metadata ==
            metadata @@ [ source_id |-> content.id, source_type |-> content.type,
                          title |-> title, source_account |-> content.source_account,
                          timestamp |-> IF content.timestamp # << >>
                                        THEN <<"str", content.timestamp>> ELSE << >> ]
    IN  IF body = << >> THEN [raised |-> FALSE, chunks |-> << >>]
        ELSE IF content.metadata.py = "list" THEN [raised |-> TRUE, chunks |-> << >>]
        ELSE IF content.type = "email"
        THEN [ raised |-> FALSE,
               chunks |-> chunk_email(title, body, get(metadata, "from", << >>),
                                      get(metadata, "to", << >>), content.id,
                                      base_metadata) ]
        ELSE [ raised |-> FALSE,
               chunks |-> chunk_document(text_chunker, title, body, content.id,
                                         content.type, base_metadata) ]

\* the provider rejects the texts of the set rejected, at every attempt: the
\* provider call that raises when embed_batch is given the texts
script_for(e, texts, rejected) ==
    LET misses == to_embed_indices(e, texts)
        bad == {k \in 1..Len(misses) : truncate_text(texts[misses[k]]) \in rejected}
        call == IF bad = {} THEN 0
                ELSE ((CHOOSE k \in bad : \A j \in bad : k <= j) - 1)
                     \div EMBEDDING_BATCH_SIZE + 1
    IN  <<call, call, call>>

\* the chunk ids of index_content, made of the content id
ids_of_content(content_id, chunks) ==
    [i \in 1..Len(chunks) |-> <<content_id, chunks[i].chunk_index>>]
\* the chunk ids of _embed_and_store_chunks, made of the chunk's metadata
ids_of_metadata(chunks) ==
    [i \in 1..Len(chunks) |->
        <<get(chunks[i].metadata, "source_id", "unknown"), chunks[i].chunk_index>>]

SemanticStats(content_processed, chunks_created, embeddings_generated, errors) ==
    [ content_processed |-> content_processed, chunks_created |-> chunks_created,
      embeddings_generated |-> embeddings_generated, errors |-> errors ]

\* SemanticIndexer._embed_and_store_chunks from chunk i; st is
\* [vector_store, embedder, stats]
RECURSIVE embed_and_store_chunks(_, _, _, _, _, _)
embed_and_store_chunks(st, collection, chunks, i, batch_size, rejected) ==
    IF i > Len(chunks) THEN st
    ELSE LET last_i == IF i + batch_size - 1 < Len(chunks) THEN i + batch_size - 1
                       ELSE Len(chunks)
             batch_chunks == SubSeq(chunks, i, last_i)
             texts == [k \in 1..Len(batch_chunks) |-> batch_chunks[k].text]
         IN  With(embed_batch(st.embedder, texts, script_for(st.embedder, texts, rejected),
                              FALSE),
             LAMBDA out :
               embed_and_store_chunks(
                 IF out.raised
                 THEN [st EXCEPT !.stats.errors = @ + 1]
                 ELSE [ vector_store |->
                          add(st.vector_store, collection, ids_of_metadata(batch_chunks),
                              out.ret, texts,
                              [k \in 1..Len(batch_chunks) |-> batch_chunks[k].metadata]),
                        embedder |-> out.embedder,
                        stats |-> [st.stats EXCEPT !.embeddings_generated = @ + Len(out.ret)] ],
                 collection, chunks, last_i + 1, batch_size, rejected))

\* "Generate chunks": the chunks of the items of one type, and the items
\* that were chunked and those that failed
RECURSIVE generate_chunks(_)
generate_chunks(items) ==
    IF items = << >> THEN [all_chunks |-> << >>, processed |-> 0, errors |-> 0]
    ELSE With(chunk_content(Head(items)), LAMBDA one :
         With(generate_chunks(Tail(items)), LAMBDA rest :
           IF one.raised THEN [rest EXCEPT !.errors = @ + 1]
           ELSE [ all_chunks |-> one.chunks \o rest.all_chunks,
                  processed |-> rest.processed + 1, errors |-> rest.errors ]))

\* the keys of content_by_type in the order of their insertion
RECURSIVE types_in_order(_, _)
types_in_order(items, seen) ==
    IF items = << >> THEN << >>
    ELSE IF Head(items).type \in seen THEN types_in_order(Tail(items), seen)
    ELSE <<Head(items).type>> \o types_in_order(Tail(items), seen \cup {Head(items).type})

\* "Process each content type"
RECURSIVE process_types(_, _, _, _, _)
process_types(st, types, content_items, batch_size, rejected) ==
    IF types = << >> THEN st
    ELSE LET items == SelectSeq(content_items, LAMBDA c : c.type = Head(types))
         IN  With(generate_chunks(items), LAMBDA g :
             With([st EXCEPT !.stats.content_processed = @ + g.processed,
                             !.stats.errors = @ + g.errors,
                             !.stats.chunks_created = @ + Len(g.all_chunks)],
             LAMBDA counted :
               process_types(
                 embed_and_store_chunks(counted, Head(types), g.all_chunks, 1, batch_size,
                                        rejected),
                 Tail(types), content_items, batch_size, rejected)))

\* kg.search_content(content_type=None, limit=100000)
all_content_limit == 100000
AllContent ==
    [ query |-> None_text, content_type |-> NULL, source |-> NULL, source_account |-> NULL,
      since |-> None_dt, until |-> None_dt, limit |-> all_content_limit ]

\* the content items index_all works on
content_items_of(db, content_types) ==
    LET found == search_content(db, AllContent)
    IN  IF content_types = << >> THEN found
        ELSE SelectSeq(found, LAMBDA c : \E i \in 1..Len(content_types) :
                                            c.type = content_types[i])

\* SemanticIndexer.index_all
semantic_index_all(db, vs, e, content_types, batch_size, rejected) ==
    LET content_items == content_items_of(db, content_types)
    IN  With(process_types([vector_store |-> vs, embedder |-> e, stats |-> SemanticStats(0, 0, 0, 0)],
                           types_in_order(content_items, {}), content_items, batch_size,
                           rejected),
        LAMBDA st : [ raised |-> FALSE, ret |-> st.stats, vector_store |-> st.vector_store,
                      embedder |-> st.embedder ])

\* SemanticIndexer.index_content; the content dict it makes has no
\* source_account and no timestamp
semantic_index_content(vs, e, a, rejected) ==
    IF or_empty(a.body) = << >>
    THEN [raised |-> FALSE, ret |-> 0, vector_store |-> vs, embedder |-> e]
    ELSE With(chunk_content([ id |-> a.content_id, type |-> a.content_type,
                              title |-> a.title, body |-> a.body,
                              metadata |-> a.metadata, source_account |-> NULL,
                              timestamp |-> << >> ]),
         LAMBDA one :
           IF one.raised THEN [raised |-> TRUE, ret |-> NULL, vector_store |-> vs, embedder |-> e]
           ELSE IF one.chunks = << >>
           THEN [raised |-> FALSE, ret |-> 0, vector_store |-> vs, embedder |-> e]
           ELSE LET texts == [k \in 1..Len(one.chunks) |-> one.chunks[k].text]
                IN  With(embed_batch(e, texts, script_for(e, texts, rejected), FALSE),
                    LAMBDA out :
                      IF out.raised
                      THEN [raised |-> TRUE, ret |-> NULL, vector_store |-> vs, embedder |-> e]
                      ELSE [ raised |-> FALSE, ret |-> Len(one.chunks),
                             vector_store |->
                               add(vs, a.content_type,
                                   ids_of_content(a.content_id, one.chunks), out.ret, texts,
                                   [k \in 1..Len(one.chunks) |-> one.chunks[k].metadata]),
                             embedder |-> out.embedder ]))

\* SemanticIndexer.delete_content
semantic_delete_content(vs, content_id, content_type) ==
    delete(vs, content_type, << >>, [source_id |-> content_id])

\* ------------------------------------------------------------------------
\* SpecSemantic: content is stored, indexed into the Vector Store, deleted
\* from it
\* ------------------------------------------------------------------------
MaxSemLog == 2

SemRow(content_id, content_type, title, body, timestamp, metadata) ==
    [ content_id |-> content_id, content_type |-> content_type,
      source |-> IF content_type = "email" THEN "gmail" ELSE "drive",
      source_account |-> "a", title |-> title, body |-> body, source_id |-> content_id,
      url |-> NULL, timestamp |-> timestamp, metadata |-> metadata ]
SemRows ==
    { SemRow("drive:a:1", "file", <<"T">>, <<"A", ".", " ", "B", "b", ".", " ", "A", ".">>,
             None_dt, PyNone),
      SemRow("drive:a:2", "file", None_text, <<"B", "b", ".">>, datetime(<<2, 0>>), PyNone),
      SemRow("drive:a:2", "file", None_text, <<"B", "b", ".">>, None_dt,
             dict(1, [source_id |-> "2"])),
      SemRow("drive:a:2", "file", <<"T">>, <<"A", ".">>, None_dt, PyList),
      SemRow("drive:a:1", "file", <<"T">>, None_text, None_dt, PyNone),
      SemRow("gmail:a:1", "email", <<"A">>, <<"C", "b", "b", "b", ".", " ", "A", ".">>,
             None_dt, dict(2, [from |-> <<"x">>, to |-> <<"y">>])) }

\* the texts the provider rejects during one call
Rejections == { {}, {<<"B", "b", ".">>} }

\* the calls of index_content: a file of two chunks, the same file with a
\* body of one chunk and without body, files of one chunk with and without a
\* source_id in the metadata, and calls that raise
\* drive:a:1 with a body of one chunk, shorter than its body in SemRows
ShorterRow == SemRow("drive:a:1", "file", <<"T">>, <<"B", "b", ".">>, None_dt, PyNone)

IndexContentArgs ==
    (({a \in SemRows : a.content_type = "file" /\ a.timestamp = None_dt}
        \cup {ShorterRow}) \X {{}})
    \cup ({a \in SemRows : a.content_id = "drive:a:2" /\ a.timestamp # None_dt} \X Rejections)

\* the calls of delete_content
DeleteContentArgs ==
    { <<"drive:a:1", "file">>, <<"drive:a:2", "file">>, <<"2", "file">>,
      <<"gmail:a:1", "email">>, <<"drive:a:1", "email">> }

StoreContent ==
    /\ Len(kg.changelog) < MaxSemLog
    /\ \E a \in SemRows :
          \E out \in {upsert_content(kg, a, now, "none")} :
              /\ kg' = out.db
              /\ last' = [op |-> "upsert_content", raised |-> FALSE]
    /\ UNCHANGED <<now, components>>

SemanticIndexAll ==
    /\ \E content_types \in {<< >>, <<"file">>}, rejected \in Rejections :
          \E out \in {semantic_index_all(kg, vector_store, embedder, content_types,
                                EMBEDDING_BATCH_SIZE, rejected)} :
              /\ vector_store' = out.vector_store
              /\ embedder' = out.embedder
              /\ last' = [ op |-> "index_all", raised |-> out.raised, ret |-> out.ret,
                           content_types |-> content_types, rejected |-> rejected ]
    /\ UNCHANGED <<kg, now, manager, sessions, remote>>

SemanticIndexContent ==
    /\ \E a \in IndexContentArgs :
          \E out \in {semantic_index_content(vector_store, embedder, a[1], a[2])} :
              /\ vector_store' = out.vector_store
              /\ embedder' = out.embedder
              /\ last' = [ op |-> "index_content", raised |-> out.raised, ret |-> out.ret,
                           args |-> a[1], rejected |-> a[2] ]
    /\ UNCHANGED <<kg, now, manager, sessions, remote>>

SemanticDeleteContent ==
    /\ \E a \in DeleteContentArgs :
          /\ vector_store' = semantic_delete_content(vector_store, a[1], a[2])
          /\ last' = [ op |-> "delete_content", raised |-> FALSE, content_id |-> a[1],
                       content_type |-> a[2] ]
    /\ UNCHANGED <<kg, now, embedder, manager, sessions, remote>>

NextSemantic ==
    StoreContent \/ SemanticIndexAll \/ SemanticIndexContent \/ SemanticDeleteContent

SpecSemantic == Init /\ [][NextSemantic]_vars

\* ------------------------------------------------------------------------
\* SpecConcurrent: callers with a connection each run upsert_entity at the
\* same time.  A caller's SELECT reads the committed database; its UPDATE or
\* INSERT opens the write transaction, which one connection holds at a time
\* (the others wait for it); its commit publishes what it wrote
\* ------------------------------------------------------------------------
Callers == {1, 2}
MaxConcurrentLog == 3

\* the session of a caller leaves the sessions
closed(ss, c) == [k \in DOMAIN ss \ {c} |-> ss[k]]

\* the write of upsert_entity after its SELECT found the row (existing) or
\* not: UPDATE ... WHERE id = ?, or INSERT, which fails on the primary key
\* when the id has a row by now
upsert_entity_write(db, a, t, existing) ==
    IF existing
    THEN Returns(log_change([db EXCEPT !.entities[a.entity_id] =
                                IF @ # NoRow THEN entity_row(a, @.created_at, t) ELSE @],
                            "entities", a.entity_id, "update"), FALSE)
    ELSE IF db.entities[a.entity_id] # NoRow THEN Raises(db)
    ELSE Returns(log_change([db EXCEPT !.entities[a.entity_id] = entity_row(a, t, t)],
                            "entities", a.entity_id, "insert"), TRUE)

\* an INSERT OR REPLACE in place of the INSERT
upsert_entity_write_or_replace(db, a, t, existing) ==
    Returns(log_change([db EXCEPT !.entities[a.entity_id] =
                            IF @ # NoRow THEN entity_row(a, @.created_at, t)
                            ELSE entity_row(a, t, t)],
                       "entities", a.entity_id, IF existing THEN "update" ELSE "insert"),
            ~existing)

\* upsert_entity up to the result of "SELECT id FROM entities WHERE id = ?"
UpsertSelect ==
    /\ Len(kg.changelog) + Cardinality(DOMAIN sessions) < MaxConcurrentLog
    /\ \E c \in Callers \ DOMAIN sessions, id \in EntityIds, f \in EntityFields :
        LET a == [ entity_id |-> id, entity_type |-> "person", name |-> f.name,
                   source |-> "gmail", source_account |-> NULL, email |-> NULL,
                   metadata |-> f.metadata ]
        IN  sessions' = [k \in DOMAIN sessions \cup {c} |->
                            IF k = c THEN [ pc |-> "selected", args |-> a,
                                            existing |-> kg.entities[id] # NoRow,
                                            conn |-> kg ]
                            ELSE sessions[k]]
    /\ last' = [op |-> "select", raised |-> FALSE]
    /\ UNCHANGED <<kg, now, embedder, vector_store, manager, remote>>

\* the UPDATE or INSERT and the _log_change; an exception rolls back and
\* leaves the call
UpsertWrite ==
    /\ \E c \in DOMAIN sessions :
        /\ sessions[c].pc = "selected"
        /\ \A k \in DOMAIN sessions : sessions[k].pc # "written"
        /\ \E block \in {upsert_entity_write(kg, sessions[c].args, now,
                                             sessions[c].existing)} :
              IF block.exc
              THEN /\ sessions' = closed(sessions, c)
                   /\ last' = [ op |-> "upsert_entity", raised |-> TRUE, caller |-> c,
                                args |-> sessions[c].args ]
              ELSE /\ sessions' = [sessions EXCEPT ![c].pc = "written",
                                                   ![c].conn = block.conn]
                   /\ last' = [op |-> "write", raised |-> FALSE]
    /\ UNCHANGED <<kg, now, embedder, vector_store, manager, remote>>

\* conn.commit() and the return
UpsertCommit ==
    /\ \E c \in DOMAIN sessions :
        /\ sessions[c].pc = "written"
        /\ kg' = sessions[c].conn
        /\ sessions' = closed(sessions, c)
        /\ last' = [ op |-> "upsert_entity", raised |-> FALSE, caller |-> c,
                     args |-> sessions[c].args, ret |-> ~sessions[c].existing ]
    /\ UNCHANGED <<now, embedder, vector_store, manager, remote>>

NextConcurrent == UpsertSelect \/ UpsertWrite \/ UpsertCommit

SpecConcurrent == Init /\ [][NextConcurrent]_vars

\* ------------------------------------------------------------------------
\* ConversationManager.  Ids and keys are tuples of characters; time.time()
\* is the clock now; a context object is a record with its identity
\* ------------------------------------------------------------------------
\* CONVERSATION_TTL = 30 * 60 and self._cleanup_interval = 300, in seconds
CONVERSATION_TTL == 1800
cleanup_interval == 300
\* MAX_HISTORY_LENGTH (20 in the source), scaled down
MAX_HISTORY_LENGTH == 2

\* a key made without the separators
make_key_without_separator(user_id, channel_id, thread_ts) ==
    user_id \o channel_id
    \o (IF thread_ts = None_text \/ thread_ts = << >> THEN <<"m", "a", "i", "n">>
        ELSE thread_ts)

\* _make_key and ConversationContext.key:
\* f"{user_id}:{channel_id}:{thread_ts or 'main'}"
make_key(user_id, channel_id, thread_ts) ==
    user_id \o <<":">> \o channel_id \o <<":">>
    \o (IF thread_ts = None_text \/ thread_ts = << >> THEN <<"m", "a", "i", "n">>
        ELSE thread_ts)

\* ConversationContext.is_expired at time t
is_expired(context, t) == t - context.last_activity > CONVERSATION_TTL

\* del self._conversations[key] for the keys of a set
without(conversations, keys) ==
    [k \in DOMAIN conversations \ keys |-> conversations[k]]
\* self._conversations[key] = context
with_context(conversations, key, context) ==
    [k \in DOMAIN conversations \cup {key} |->
        IF k = key THEN context ELSE conversations[k]]

\* ConversationManager._maybe_cleanup at time t
maybe_cleanup(m, t) ==
    IF t - m.last_cleanup < cleanup_interval THEN m
    ELSE [m EXCEPT !.last_cleanup = t,
                   !.conversations =
                       without(@, {k \in DOMAIN @ : is_expired(@[k], t)})]

\* ConversationManager.get at time t: the manager after it, and the context
\* or None
manager_get(m, user_id, channel_id, thread_ts, t) ==
    With(maybe_cleanup(m, t), LAMBDA cleaned :
      LET key == make_key(user_id, channel_id, thread_ts)
      IN  IF key \in DOMAIN cleaned.conversations
          THEN IF ~is_expired(cleaned.conversations[key], t)
               THEN [ manager |-> [cleaned EXCEPT !.conversations[key].last_activity = t],
                      ret |-> [cleaned.conversations[key] EXCEPT !.last_activity = t] ]
               ELSE [ manager |-> [cleaned EXCEPT !.conversations = without(@, {key})],
                      ret |-> PyNone ]
          ELSE [manager |-> cleaned, ret |-> PyNone])

\* ConversationContext(user_id, channel_id, thread_ts) made at time t
ConversationContext(id, user_id, channel_id, thread_ts, t) ==
    [ id |-> id, user_id |-> user_id, channel_id |-> channel_id, thread_ts |-> thread_ts,
      history |-> << >>, pending_action |-> PyNone, last_activity |-> t ]

\* ConversationManager.get_or_create at time t
get_or_create(m, user_id, channel_id, thread_ts, t) ==
    With(manager_get(m, user_id, channel_id, thread_ts, t), LAMBDA got :
      IF got.ret # PyNone THEN got
      ELSE LET context == ConversationContext(got.manager.next_id, user_id, channel_id,
                                              thread_ts, t)
           IN  [ manager |-> [got.manager EXCEPT
                                 !.conversations =
                                     with_context(@, make_key(user_id, channel_id, thread_ts),
                                                  context),
                                 !.next_id = @ + 1],
                 ret |-> context ])

\* ConversationManager.delete
manager_delete(m, user_id, channel_id, thread_ts) ==
    LET key == make_key(user_id, channel_id, thread_ts)
    IN  IF key \in DOMAIN m.conversations
        THEN [manager |-> [m EXCEPT !.conversations = without(@, {key})], ret |-> TRUE]
        ELSE [manager |-> m, ret |-> FALSE]

\* self.history[-MAX_HISTORY_LENGTH:]
last_messages(history) ==
    IF Len(history) > MAX_HISTORY_LENGTH
    THEN SubSeq(history, Len(history) - MAX_HISTORY_LENGTH + 1, Len(history))
    ELSE history

\* ConversationContext.add_message at time t
add_message(context, role, content, t) ==
    [context EXCEPT
        !.history = last_messages(Append(@, [role |-> role, content |-> content,
                                             timestamp |-> t])),
        !.last_activity = t]

\* self.history[-count:]: a slice from a start that counts from the end when
\* it is negative, and from the front otherwise (-0 is 0)
slice_from_end(history, n) ==
    LET start == IF n > 0
                 THEN (IF Len(history) > n THEN Len(history) - n ELSE 0)
                 ELSE (IF 0 - n < Len(history) THEN 0 - n ELSE Len(history))
    IN  SubSeq(history, start + 1, Len(history))

\* ConversationContext.get_recent_history
get_recent_history(context, n) == slice_from_end(context.history, n)

\* ------------------------------------------------------------------------
\* SpecConversation: the calls of a bot on one ConversationManager, while
\* the clock runs
\* ------------------------------------------------------------------------
MaxContexts == 2
\* messages a context of SpecConversation is given
MaxHeld == 1
\* the times at which calls are made: the start, the end of the time to
\* live of a context made at the start, and one second after it
CallTimes == {0, CONVERSATION_TTL, CONVERSATION_TTL + 1}

\* the (user, channel, thread) a call is made with
Conversations ==
    { << <<"U">>, <<"C", "C">>, None_text >>,
      << <<"U", "C">>, <<"C">>, None_text >>,
      << <<"U">>, <<"C", "C">>, <<"1">> >> }

GetOrCreate ==
    /\ \E a \in Conversations :
          \E out \in {get_or_create(manager, a[1], a[2], a[3], now)} :
              /\ out.manager.next_id <= MaxContexts + 1
              /\ manager' = out.manager
              /\ last' = [op |-> "get_or_create", raised |-> FALSE, args |-> a,
                          ret |-> out.ret]
    /\ UNCHANGED <<kg, now, embedder, vector_store, sessions, remote>>

Get ==
    /\ \E a \in Conversations :
          \E out \in {manager_get(manager, a[1], a[2], a[3], now)} :
              /\ manager' = out.manager
              /\ last' = [op |-> "get", raised |-> FALSE, args |-> a, ret |-> out.ret]
    /\ UNCHANGED <<kg, now, embedder, vector_store, sessions, remote>>

Delete ==
    /\ \E a \in Conversations :
          \E out \in {manager_delete(manager, a[1], a[2], a[3])} :
              /\ manager' = out.manager
              /\ last' = [op |-> "delete", raised |-> FALSE, args |-> a, ret |-> out.ret]
    /\ UNCHANGED <<kg, now, embedder, vector_store, sessions, remote>>

\* the bot adds a message to a context it got from the manager
AddMessage ==
    /\ \E key \in DOMAIN manager.conversations :
          /\ Len(manager.conversations[key].history) < MaxHeld
          /\ manager' = [manager EXCEPT !.conversations[key] =
                            add_message(@, "user", <<"h">>, now)]
          /\ last' = [op |-> "add_message", raised |-> FALSE, key |-> key]
    /\ UNCHANGED <<kg, now, embedder, vector_store, sessions, remote>>

TimePasses ==
    /\ \E t \in CallTimes :
          /\ t > now
          /\ now' = t
    /\ last' = [op |-> "tick", raised |-> FALSE]
    /\ UNCHANGED <<kg, components>>

NextConversation == GetOrCreate \/ Get \/ Delete \/ AddMessage \/ TimePasses

SpecConversation == Init /\ [][NextConversation]_vars

\* ------------------------------------------------------------------------
\* SpecContext: one ConversationContext that is given the messages
\* "Message 0", "Message 1", ... and asked for its recent history
\* ------------------------------------------------------------------------
\* messages a behaviour adds
MaxAdded == 4
\* the counts get_recent_history is called with
Counts == 0 .. 3
\* f"Message {i}"
Message(i) == <<"M", i>>
\* the key of the one context
TheContext == make_key(<<"U">>, <<"C">>, None_text)

InitContext ==
    /\ kg = EmptyDb
    /\ now = 0
    /\ embedder = NewEmbedder
    /\ vector_store = NewVectorStore
    /\ manager = get_or_create(NewManager, <<"U">>, <<"C">>, None_text, 0).manager
    /\ sessions = NoSessions
    /\ remote = NoRemote
    /\ last = [op |-> "ConversationContext", raised |-> FALSE, added |-> 0]

ContextAddMessage ==
    /\ last.added < MaxAdded
    /\ \E role \in {"user", "assistant"} :
          manager' = [manager EXCEPT !.conversations[TheContext] =
                         add_message(@, role, Message(last.added), now)]
    /\ last' = [op |-> "add_message", raised |-> FALSE, added |-> last.added + 1]
    /\ UNCHANGED <<kg, now, embedder, vector_store, sessions, remote>>

GetRecentHistory ==
    /\ \E n \in Counts :
          last' = [op |-> "get_recent_history", raised |-> FALSE, added |-> last.added,
                   count |-> n,
                   ret |-> get_recent_history(manager.conversations[TheContext], n)]
    /\ UNCHANGED <<kg, now, components>>

ContextTimePasses ==
    /\ \E t \in CallTimes :
          /\ t > now
          /\ now' = t
    /\ last' = [op |-> "tick", raised |-> FALSE, added |-> last.added]
    /\ UNCHANGED <<kg, components>>

NextContext == ContextAddMessage \/ GetRecentHistory \/ ContextTimePasses

SpecContext == InitContext /\ [][NextContext]_vars

\* ------------------------------------------------------------------------
\* The Slack bot: the handlers register_handlers sets up on one
\* ConversationManager
\* ------------------------------------------------------------------------
\* a or b, on texts: None and the empty text are false
or_text(a, b) == IF a = None_text \/ a = << >> THEN b ELSE a

\* CreateIssueAction(repo, title, body)
CreateIssueAction(repo, title, body) ==
    [action_type |-> "Create GitHub Issue", repo |-> repo, title |-> title, body |-> body]

\* CreateIssueAction.is_ready
is_ready(action) == action.repo # << >> /\ action.title # << >>

\* CreateIssueAction.update_from_input
update_from_input(action, text) ==
    LET given == strip(text)
    IN  IF action.repo = << >> THEN [action EXCEPT !.repo = given]
        ELSE IF action.title = << >> THEN [action EXCEPT !.title = given]
        ELSE IF action.body = << >>
             THEN (IF lower(given) # <<"s", "k", "i", "p">>
                   THEN [action EXCEPT !.body = given] ELSE action)
        ELSE action

\* what the bot answers a pending action with: the confirmation prompt with
\* its two buttons when the action is ready, the next question otherwise
prompt_of(action) ==
    IF is_ready(action) THEN <<"c", "o", "n", "f", "i", "r", "m", "?">>
    ELSE IF action.repo = << >> THEN <<"r", "e", "p", "o", "?">>
    ELSE <<"t", "i", "t", "l", "e", "?">>

\* GitHubHandler._handle_create_issue: the context with the action pending,
\* and the response
handle_create_issue(entities, context) ==
    LET action == CreateIssueAction(entities.repo, entities.title, << >>)
    IN  [ context |-> [context EXCEPT !.pending_action = action],
          response |-> prompt_of(action) ]

\* _handle_pending_action_input
handle_pending_action_input(context, text) ==
    LET pending == update_from_input(context.pending_action, text)
    IN  [ context |-> [context EXCEPT !.pending_action = pending],
          response |-> prompt_of(pending) ]

\* _route_message for a classified intent: a create issue request goes to
\* the GitHub handler, help is answered, and an unknown intent gives None
route_message(intent, context) ==
    IF intent.intent = "github_create_issue"
    THEN handle_create_issue(intent.entities, context)
    ELSE IF intent.intent = "help"
         THEN [context |-> context, response |-> <<"h", "e", "l", "p">>]
         ELSE [context |-> context, response |-> None_text]

\* _handle_message after the authorization check, for an event of a user in
\* a channel at time t: the manager after it, and what the bot says
handle_message(m, event, intent, t) ==
    LET thread_ts == or_text(event.thread_ts, event.ts)
        text == strip(event.text)
    IN  IF text = << >>
        THEN [manager |-> m, said |-> <<"h", "e", "l", "p">>]
        ELSE
          With(get_or_create(m, event.user, event.channel, thread_ts, t), LAMBDA got :
            LET key == make_key(event.user, event.channel, thread_ts)
                context == add_message(got.ret, "user", text, t)
                routed == IF context.pending_action # PyNone
                          THEN handle_pending_action_input(context, text)
                          ELSE route_message(intent, context)
                answered == IF routed.response # None_text
                            THEN add_message(routed.context, "assistant",
                                             routed.response, t)
                            ELSE routed.context
            IN  [ manager |-> [got.manager EXCEPT !.conversations[key] = answered],
                  said |-> IF routed.response # None_text THEN routed.response
                           ELSE <<"s", "o", "r", "r", "y">> ])

\* the text the confirmation message is replaced by
ThisActionHasExpired == "This action has expired."
ActionCompleted == "Action completed"
ActionCancelled == "Action cancelled."

\* _handle_action_confirmation at time t: the manager after it, whether the
\* action was executed, and the text the message is updated to
handle_action_confirmation(m, user_id, channel_id, confirmed, t) ==
    With(manager_get(m, user_id, channel_id, None_text, t), LAMBDA got :
      IF got.ret = PyNone \/ got.ret.pending_action = PyNone
      THEN [manager |-> got.manager, executed |-> FALSE, said |-> ThisActionHasExpired]
      ELSE LET key == make_key(user_id, channel_id, None_text)
           IN  [ manager |-> [got.manager EXCEPT
                                 !.conversations[key].pending_action = PyNone],
                 executed |-> confirmed,
                 said |-> IF confirmed THEN ActionCompleted ELSE ActionCancelled ])

\* ------------------------------------------------------------------------
\* SpecBot: messages and button presses of the users of one workspace
\* ------------------------------------------------------------------------
\* events the bot handles in a run
MaxEvents == 2

BotUsers == { <<"U">>, <<"V">> }
BotChannels == { <<"D">> }
\* the ts of a Slack message, and the thread_ts of one sent in a thread
MessageTs == { <<"1">>, <<"2">> }
ThreadTs == { None_text, <<"1">> }
MessageTexts == { <<" ">>, <<"r">> }

Events ==
    [ user : BotUsers, channel : BotChannels, ts : MessageTs, thread_ts : ThreadTs,
      text : MessageTexts ]

\* what IntentRouter.classify makes of a message
Intents ==
    { [intent |-> "github_create_issue", entities |-> [repo |-> r, title |-> t]] :
          r \in { << >>, <<"r">> }, t \in { << >>, <<"t">> } }
    \cup { [intent |-> "help", entities |-> << >>],
           [intent |-> "unknown", entities |-> << >>] }

InitBot ==
    /\ kg = EmptyDb
    /\ now = 0
    /\ embedder = NewEmbedder
    /\ vector_store = NewVectorStore
    /\ manager = NewManager
    /\ sessions = NoSessions
    /\ remote = NoRemote
    /\ last = [op |-> "register_handlers", raised |-> FALSE, events |-> 0, executed |-> 0]

\* handle_mention / handle_dm
HandleMessage ==
    /\ last.events < MaxEvents
    /\ \E event \in Events, intent \in Intents :
          \E out \in {handle_message(manager, event, intent, now)} :
              /\ manager' = out.manager
              /\ last' = [op |-> "handle_message", raised |-> FALSE,
                          events |-> last.events + 1, executed |-> last.executed,
                          event |-> event, said |-> out.said]
    /\ UNCHANGED <<kg, now, embedder, vector_store, sessions, remote>>

\* handle_confirm / handle_cancel
HandleActionConfirmation ==
    /\ last.events < MaxEvents
    /\ \E user_id \in BotUsers, channel_id \in BotChannels, confirmed \in BOOLEAN :
          \E out \in {handle_action_confirmation(manager, user_id, channel_id,
                                                 confirmed, now)} :
              /\ manager' = out.manager
              /\ last' = [op |-> "handle_action_confirmation", raised |-> FALSE,
                          events |-> last.events + 1,
                          executed |-> last.executed + (IF out.executed THEN 1 ELSE 0),
                          user_id |-> user_id, channel_id |-> channel_id,
                          confirmed |-> confirmed, said |-> out.said]
    /\ UNCHANGED <<kg, now, embedder, vector_store, sessions, remote>>

BotTimePasses ==
    /\ \E t \in CallTimes :
          /\ t > now
          /\ now' = t
    /\ last' = [last EXCEPT !.op = "tick"]
    /\ UNCHANGED <<kg, components>>

NextBot == HandleMessage \/ HandleActionConfirmation \/ BotTimePasses

SpecBot == InitBot /\ [][NextBot]_vars

\* ------------------------------------------------------------------------
\* SpecInterleave: one indexer syncing one account of a source whose items
\* change while the indexer runs.  A full index makes its calls to the
\* source one after the other: the listing, then the cursor
\* (get_profile / get_start_page_token); the store is written by this run
\* alone, so what the run writes is applied when it persists the cursor
\* ------------------------------------------------------------------------
\* changes the source goes through
MaxSourceChanges == 2

\* the historyId / startPageToken the source hands out after n changes
HistoryIds == <<"h0", "h1", "h2", "h3", "h4">>
history_id(n) == HistoryIds[n + 1]
\* the changes the source lists from a cursor on
changes_since(r, token) ==
    LET n == CHOOSE k \in 0 .. Len(HistoryIds) - 1 : HistoryIds[k + 1] = token
    IN  SubSeq(r.history, n + 1, Len(r.history))

\* the source after a change
changed(r, c) ==
    [r EXCEPT !.items[c.id] = IF c.removed THEN NoRecord ELSE c.rec,
              !.history = Append(@, c)]

\* what list_messages / list_files answers: the items the source holds, in
\* one page
listing(r) ==
    LET page(id) == IF r.items[id] = NoRecord THEN << >> ELSE <<r.items[id]>>
    IN  << page("1") \o page("2") >>

InterleavedSources == {"gmail", "drive"}
SourceChangeSet == {Change(A1), Change(A2), Change(B1), Removal("1")}

\* the indexer between runs
Idle(deltas, before_cursor, after_cursor) ==
    [ pc |-> "idle", pages |-> << >>, cursor |-> NULL, deltas |-> deltas,
      before_cursor |-> before_cursor, after_cursor |-> after_cursor ]

InitInterleave ==
    /\ kg = EmptyDb
    /\ now = 0
    /\ last = [op |-> "init", raised |-> FALSE]
    /\ embedder = NewEmbedder
    /\ vector_store = NewVectorStore
    /\ manager = NewManager
    /\ sessions = [indexer |-> Idle(0, {}, {})]
    /\ \E source \in InterleavedSources :
          remote = [source |-> source, items |-> [id \in NativeIds |-> NoRecord],
                    history |-> << >>]

\* an item is added, changed or removed at the source; a change made while
\* a full index is between its listing and its set_last_sync is noted with
\* the side of the cursor call it fell on
SourceChanges ==
    /\ Len(remote.history) < MaxSourceChanges
    /\ \E c \in SourceChangeSet :
          /\ remote.items[c.id] # (IF c.removed THEN NoRecord ELSE c.rec)
          /\ remote' = changed(remote, c)
          /\ sessions' =
                [sessions EXCEPT
                    !.indexer.before_cursor =
                        IF sessions.indexer.pc = "listed" THEN @ \cup {c.id} ELSE @,
                    !.indexer.after_cursor =
                        IF sessions.indexer.pc = "cursor" THEN @ \cup {c.id} ELSE @]
    /\ last' = [op |-> "source_change", raised |-> FALSE]
    /\ UNCHANGED <<kg, now, embedder, vector_store, manager>>

\* index_all up to the end of its paging loop: the source has answered the
\* listing
IndexAllLists ==
    /\ now < MaxRuns
    /\ sessions.indexer.pc = "idle"
    /\ sessions' = [sessions EXCEPT !.indexer =
                        [ pc |-> "listed", pages |-> listing(remote), cursor |-> NULL,
                          deltas |-> 0, before_cursor |-> {}, after_cursor |-> {} ]]
    /\ last' = [op |-> "list", raised |-> FALSE]
    /\ UNCHANGED <<kg, now, embedder, vector_store, manager, remote>>

\* client.get_profile() / client.get_start_page_token()
IndexAllGetsCursor ==
    /\ sessions.indexer.pc = "listed"
    /\ sessions' = [sessions EXCEPT !.indexer.pc = "cursor",
                                    !.indexer.cursor = history_id(Len(remote.history))]
    /\ last' = [op |-> "cursor", raised |-> FALSE]
    /\ UNCHANGED <<kg, now, embedder, vector_store, manager, remote>>

\* set_last_sync at the end of index_all: the run is over, the store holds
\* what it indexed from the listing and the cursor it was given
IndexAllPersists ==
    /\ sessions.indexer.pc = "cursor"
    /\ LET inp == FullInput(sessions.indexer.pages, 0, sessions.indexer.cursor, FALSE, "ok")
       IN  \E out \in {index_all(remote.source, kg, "a", inp, now)} :
              /\ kg' = out.db
              /\ last' = Ran("index_all", remote.source, "a", inp, NoInput, out)
    /\ sessions' = [sessions EXCEPT !.indexer.pc = "idle", !.indexer.pages = << >>,
                                    !.indexer.cursor = NULL]
    /\ now' = now + 1
    /\ UNCHANGED <<embedder, vector_store, manager, remote>>

\* index_delta from the stored cursor: the source lists its changes since
\* that cursor and hands out its newest one
InterleavedIndexDelta ==
    /\ now < MaxRuns
    /\ sessions.indexer.pc = "idle"
    /\ ~no_sync_token(get_last_sync(kg, remote.source, "a"))
    /\ LET token == get_last_sync(kg, remote.source, "a").last_sync_token
           inp == DeltaInput(changes_since(remote, token), "none",
                             history_id(Len(remote.history)), "ok")
       IN  \E out \in {index_delta(remote.source, kg, "a", inp, NoInput, now)} :
              /\ kg' = out.db
              /\ last' = Ran("index_delta", remote.source, "a", NoInput, inp, out)
    /\ sessions' = [sessions EXCEPT !.indexer.deltas = @ + 1]
    /\ now' = now + 1
    /\ UNCHANGED <<embedder, vector_store, manager, remote>>

NextInterleave ==
    \/ SourceChanges
    \/ IndexAllLists
    \/ IndexAllGetsCursor
    \/ IndexAllPersists
    \/ InterleavedIndexDelta

SpecInterleave == InitInterleave /\ [][NextInterleave]_vars

\* ------------------------------------------------------------------------
\* SpecRetrieval: content of a synced account is stored, indexed into the
\* Vector Store, deleted by a delta sync, and searched.  The Vector Store
\* answers a search from the vectors it holds
\* ------------------------------------------------------------------------
\* writes to the store in a run of the model
MaxRetrievalLog == 3

\* the content the syncs bring in: a file of two chunks and an email
RetrievalRows ==
    {a \in SemRows : a.content_id \in {"drive:a:1", "gmail:a:1"} /\ a.body # None_text}

\* coll.query(query_embeddings, n_results): the vectors of the collection,
\* nearest first; in the model every vector is at the same distance
RECURSIVE hits_of(_, _)
hits_of(vectors, distance) ==
    IF vectors = {} THEN << >>
    ELSE LET v == CHOOSE x \in vectors : TRUE
         IN  <<Hit(v.id[1], v.id[2], distance)>> \o hits_of(vectors \ {v}, distance)

\* what the embedder and the Vector Store answer to a search
answers_of(vs, distance) ==
    [ embed |-> "ok",
      hits |-> [c \in {"email", "file"} |->
                  Answer(hits_of({v \in vs : v.collection = c}, distance))] ]

Distances == {1, 5}

RetrievalSearchArgs ==
    [ query : {<<"A">>, <<"_">>}, content_types : {<< >>, <<"file">>}, sources : {{}},
      since : {None_dt}, until : {None_dt}, top_k : {2},
      use_semantic : BOOLEAN, use_keyword : {TRUE} ]

\* the account has been through a full index of Gmail and of Drive while it
\* held nothing, so each source has a cursor for delta syncs
InitRetrieval ==
    /\ kg = drive_index_all(
                gmail_index_all(EmptyDb, "a", FullInput(<< << >> >>, 0, "tok1", FALSE, "ok"),
                                0).db,
                "a", FullInput(<< << >> >>, 0, "tok1", FALSE, "ok"), 0).db
    /\ now = 0
    /\ last = [op |-> "index_all", raised |-> FALSE]
    /\ embedder = NewEmbedder
    /\ vector_store = NewVectorStore
    /\ manager = NewManager
    /\ sessions = NoSessions
    /\ remote = NoRemote

\* a sync writes a content row
SyncContent ==
    /\ Len(kg.changelog) < MaxRetrievalLog
    /\ \E a \in RetrievalRows :
          \E out \in {upsert_content(kg, a, now, "none")} :
              /\ kg' = out.db
              /\ last' = [op |-> "upsert_content", raised |-> FALSE]
    /\ UNCHANGED <<now, components>>

\* index_delta of Gmail or Drive when the source lists the removal of
\* native id "1"
SyncRemoval ==
    /\ Len(kg.changelog) < MaxRetrievalLog
    /\ \E source \in {"gmail", "drive"} :
          LET inp == DeltaInput(<<Removal("1")>>, "none", "tok2", "ok")
          IN  \E out \in {index_delta(source, kg, "a", inp, NoInput, now)} :
                 /\ kg' = out.db
                 /\ last' = Ran("index_delta", source, "a", NoInput, inp, out)
    /\ UNCHANGED <<now, components>>

\* SemanticIndexer.index_all over the content table
RetrievalIndexAll ==
    /\ \E out \in {semantic_index_all(kg, vector_store, embedder, << >>,
                                      EMBEDDING_BATCH_SIZE, {})} :
          /\ vector_store' = out.vector_store
          /\ embedder' = out.embedder
          /\ last' = [ op |-> "semantic_index_all", raised |-> out.raised, ret |-> out.ret ]
    /\ UNCHANGED <<kg, now, manager, sessions, remote>>

\* QueryEngine.search
RetrievalSearch ==
    /\ \E a \in RetrievalSearchArgs, distance \in Distances :
          \E out \in {search(kg, answers_of(vector_store, distance), "ok", a)} :
              last' = [op |-> "search", raised |-> out.raised, args |-> a, ret |-> out.ret]
    /\ UNCHANGED <<kg, now>>
    /\ UNCHANGED components

NextRetrieval == SyncContent \/ SyncRemoval \/ RetrievalIndexAll \/ RetrievalSearch

SpecRetrieval == InitRetrieval /\ [][NextRetrieval]_vars

\* ------------------------------------------------------------------------
\* Properties of the storage layer
\* ------------------------------------------------------------------------
\* the changelog holds a record of this action on this row
Logged(table_name, record_id, action) ==
    \E i \in 1..Len(kg.changelog) :
        kg.changelog[i] = [table_name |-> table_name, record_id |-> record_id,
                           action |-> action]

\* C5: upsert_entity / upsert_content returns true exactly when no row with the
\* id existed immediately before the call, whatever upserts and deletes came
\* before it
C5_UpsertReportsPreWriteExistence ==
    [][ /\ (last'.op = "upsert_entity" =>
                last'.ret = (kg.entities[last'.args.entity_id] = NoRow))
        /\ (last'.op = "upsert_content" =>
                last'.ret = (kg.content[last'.args.content_id] = NoRow)) ]_vars

\* an upsert of an id that was deleted before returned true again
C5_Witness ==
    /\ last.op = "upsert_entity"
    /\ last.ret = TRUE
    /\ Logged("entities", last.args.entity_id, "delete")

\* the call repeats the fields the stored row was written with
SameEntityFields(row, a) == row # NoRow /\ entity_row(a, row.created_at, row.updated_at) = row
SameContentFields(row, a) == row # NoRow /\ content_row(a, row.created_at, row.updated_at) = row

\* C6 as stated: an upsert that repeats the stored fields returns false and
\* leaves no field of the row different
C6_SecondUpsertLeavesRowUnchanged ==
    [][ /\ (last'.op = "upsert_entity"
             /\ SameEntityFields(kg.entities[last'.args.entity_id], last'.args)
                => /\ last'.ret = FALSE
                   /\ kg'.entities[last'.args.entity_id] = kg.entities[last'.args.entity_id])
        /\ (last'.op = "upsert_content"
             /\ SameContentFields(kg.content[last'.args.content_id], last'.args)
                => /\ last'.ret = FALSE
                   /\ kg'.content[last'.args.content_id] = kg.content[last'.args.content_id])
      ]_vars

\* C6 amended: the first upsert of an absent id returns true, an upsert that
\* repeats the stored fields returns false and leaves every column of the row
\* as it was except updated_at, which becomes the time of the call
C6_SecondUpsertChangesOnlyUpdatedAt ==
    [][ /\ (last'.op = "upsert_entity" =>
              LET id == last'.args.entity_id IN
              /\ (kg.entities[id] = NoRow => last'.ret = TRUE)
              /\ (SameEntityFields(kg.entities[id], last'.args)
                    => /\ last'.ret = FALSE
                       /\ kg'.entities[id] = [kg.entities[id] EXCEPT !.updated_at = now]))
        /\ (last'.op = "upsert_content" =>
              LET id == last'.args.content_id IN
              /\ (kg.content[id] = NoRow => last'.ret = TRUE)
              /\ (SameContentFields(kg.content[id], last'.args)
                    => /\ last'.ret = FALSE
                       /\ kg'.content[id] = [kg.content[id] EXCEPT !.updated_at = now]))
      ]_vars

\* the second of two upserts returned false after the clock had advanced
C6_Witness ==
    /\ last.op = "upsert_entity"
    /\ last.ret = FALSE
    /\ kg.changelog = << [table_name |-> "entities", record_id |-> last.args.entity_id,
                          action |-> "insert"],
                        [table_name |-> "entities", record_id |-> last.args.entity_id,
                          action |-> "update"] >>
    /\ kg.entities[last.args.entity_id].created_at < kg.entities[last.args.entity_id].updated_at

\* C7: a storage call that fails at any of its statements raises and leaves
\* every table as it was before the call; a call that returns has committed
\* its row write together with the changelog record
C7_CallsAreAllOrNothing ==
    [][ /\ (last'.raised => kg' = kg)
        /\ (~last'.raised /\ last'.op = "upsert_content" =>
                /\ kg'.content[last'.args.content_id] # NoRow
                /\ Len(kg'.changelog) = Len(kg.changelog) + 1)
        /\ (~last'.raised /\ last'.op = "upsert_entity" =>
                /\ kg'.entities[last'.args.entity_id] # NoRow
                /\ Len(kg'.changelog) = Len(kg.changelog) + 1)
        /\ (~last'.raised /\ last'.op = "set_last_sync" =>
                kg'.sync_state[<<last'.args.source, last'.args.account>>] # NoRow)
      ]_vars

\* upsert_content failed at the changelog insert that follows its row write,
\* with rows in the store
C7_Witness ==
    /\ last.raised
    /\ last.op = "upsert_content"
    /\ last.fault = "log"
    /\ kg.changelog # << >>

\* C8 as stated, for the calls it singles out: add_relationship from any id
\* (a Content id included) to a stored entity returns true and stores the edge
\* whenever the triple is not stored yet, and returns false only for a
\* duplicate
C8_NewEdgeIsStored ==
    [][ last'.op = "add_relationship" /\ has_entity(kg, last'.args.to_id)
        /\ last'.args.from_id \in ContentIds =>
          /\ last'.ret = triple_free(kg, last'.args)
          /\ (triple_free(kg, last'.args) => ~triple_free(kg', last'.args)) ]_vars

\* idx_rel_unique as a property of the table
OneRowPerTriple(db) ==
    \A r, q \in db.relationships :
        (r.from_id = q.from_id /\ r.to_id = q.to_id /\ r.relation = q.relation) => r = q

\* C9: there is never more than one relationship row per (from_id, to_id,
\* relation); re-adding a stored edge returns false without raising and
\* get_relationships returns as many rows as before
C9_RelationshipsAreUnique ==
    [][ /\ OneRowPerTriple(kg')
        /\ (last'.op = "add_relationship" /\ ~triple_free(kg, last'.args) =>
                /\ ~last'.raised
                /\ last'.ret = FALSE
                /\ \A id \in Ids, direction \in {"outgoing", "incoming", "both"} :
                      Len(get_relationships(kg', id, "None", direction))
                        = Len(get_relationships(kg, id, "None", direction))) ]_vars

\* a stored edge was added again and refused
C9_Witness ==
    /\ last.op = "add_relationship"
    /\ last.ret = FALSE
    /\ ~triple_free(kg, last.args)
    /\ Len(get_relationships(kg, last.args.from_id, last.args.relation, "outgoing")) = 1

\* the rows of the other ids of both tables are as before
OtherRowsUnchanged(table, id) ==
    /\ \A e \in EntityIds : (table = "entities" /\ e = id) \/ kg'.entities[e] = kg.entities[e]
    /\ \A c \in ContentIds : (table = "content" /\ c = id) \/ kg'.content[c] = kg.content[c]
    /\ kg'.sync_state = kg.sync_state

\* C10 as stated: a delete of an absent id returns false and changes nothing;
\* a delete of a present id returns true, the id is absent afterwards and
\* every other row of the store is unchanged
C10_DeleteLeavesAllOtherRows ==
    [][ /\ (last'.op = "delete_content" =>
              LET id == last'.args.id IN
              IF kg.content[id] = NoRow THEN last'.ret = FALSE /\ kg' = kg
              ELSE /\ last'.ret = TRUE
                   /\ get_content(kg', id) = NoRow
                   /\ OtherRowsUnchanged("content", id)
                   /\ kg'.relationships = kg.relationships)
        /\ (last'.op = "delete_entity" =>
              LET id == last'.args.id IN
              IF kg.entities[id] = NoRow THEN last'.ret = FALSE /\ kg' = kg
              ELSE /\ last'.ret = TRUE
                   /\ get_entity(kg', id) = NoRow
                   /\ OtherRowsUnchanged("entities", id)
                   /\ kg'.relationships = kg.relationships) ]_vars

\* C10 amended: as stated for the entity and content rows; delete_entity also
\* removes the relationship rows that start or end at the deleted entity and
\* leaves the other relationship rows
C10_DeleteCascadesToRelationships ==
    [][ /\ (last'.op = "delete_content" =>
              LET id == last'.args.id IN
              IF kg.content[id] = NoRow THEN last'.ret = FALSE /\ kg' = kg
              ELSE /\ last'.ret = TRUE
                   /\ get_content(kg', id) = NoRow
                   /\ OtherRowsUnchanged("content", id)
                   /\ kg'.relationships = kg.relationships)
        /\ (last'.op = "delete_entity" =>
              LET id == last'.args.id IN
              IF kg.entities[id] = NoRow THEN last'.ret = FALSE /\ kg' = kg
              ELSE /\ last'.ret = TRUE
                   /\ get_entity(kg', id) = NoRow
                   /\ OtherRowsUnchanged("entities", id)
                   /\ kg'.relationships =
                        {r \in kg.relationships : r.from_id # id /\ r.to_id # id}) ]_vars

\* an entity with a relationship row was deleted, and the row went with it
C10_Witness ==
    /\ last.op = "delete_entity"
    /\ last.ret = TRUE
    /\ kg.rel_seq > Cardinality(kg.relationships)

\* ------------------------------------------------------------------------
\* Properties of the indexer runs
\* ------------------------------------------------------------------------
\* the keys of the stats dict of a full index and of a delta sync
FullKeys(source) ==
    CASE source = "gmail" -> GmailFullKeys
      [] source = "drive" -> DriveFullKeys
      [] OTHER -> CalendarFullKeys
DeltaKeys(source) ==
    CASE source = "gmail" -> GmailDeltaKeys
      [] source = "drive" -> DriveDeltaKeys
      [] OTHER -> CalendarDeltaKeys

\* the sync_token stored for (source, account), if there is a row
StoredCursor(db, source, account) ==
    LET row == get_last_sync(db, source, account)
    IN  IF row = NoRow THEN [stored |-> FALSE]
        ELSE [stored |-> TRUE, sync_token |-> row.last_sync_token]

\* C1: index_delta of Gmail, Drive and Calendar, called when get_last_sync has
\* no row for (source, account) or a row whose last_sync_token is null or
\* empty, performs a full index instead: the call does to the store what
\* index_all does and ends as index_all ends, and the stats object it returns
\* has the full-index keys, not the delta keys
C1_NoTokenRunsFullIndex ==
    [][ ( /\ last'.op = "index_delta"
          /\ last'.account \in GOOGLE_ACCOUNTS
          /\ no_sync_token(get_last_sync(kg, last'.source, last'.account)) )
        => /\ last'.ran_full
           /\ LET full == index_all(last'.source, kg, last'.account, last'.full, now)
              IN  /\ kg' = full.db
                  /\ last'.raised = full.raised
                  /\ last'.ret = full.ret
           /\ (~last'.raised => /\ DOMAIN last'.ret = FullKeys(last'.source)
                                /\ DOMAIN last'.ret # DeltaKeys(last'.source)) ]_vars

\* the second run was a Gmail index_delta that found no usable token after a
\* first run had indexed message 1, and it returned the stats of a full index
C1_Witness ==
    /\ now = 2
    /\ last.op = "index_delta"
    /\ last.source = "gmail"
    /\ last.ran_full
    /\ last.delta = NoInput
    /\ ~last.raised
    /\ DOMAIN last.ret = GmailFullKeys
    /\ kg.content["gmail:a:1"] # NoRow
    /\ kg.content["gmail:a:1"].created_at = 0

\* the body the store receives for a delivered record
DeliveredBody(source, rec) ==
    IF source = "gmail" /\ rec.body = NULL THEN "" ELSE rec.body

\* C2: in a delta run whose change listing succeeds and whose per-record
\* fetches succeed, every delivered change is applied: after the run the
\* content id of a removed / deleted / cancelled record is absent, and the
\* content row of every added or updated record is present with the
\* delivered fields (for an id changed more than once, its last change)
C2_DeltaAppliesEveryChange ==
    [][ ( /\ last'.op = "index_delta"
          /\ last'.delta # NoInput
          /\ last'.delta.error = "none"
          /\ last'.delta.bad = "ok" )
        => LET changes == last'.delta.changes
           IN  \A i \in 1..Len(changes) :
                 (\A j \in (i + 1)..Len(changes) : changes[j].id # changes[i].id)
                 => LET row == get_content(kg', ContentId(last'.source, last'.account,
                                                          changes[i].id))
                    IN  IF changes[i].removed THEN row = NoRow
                        ELSE /\ row # NoRow
                             /\ row.title = changes[i].rec.title
                             /\ row.body = DeliveredBody(last'.source, changes[i].rec) ]_vars

\* C3: when the delta change listing fails with the source's cursor-expired
\* error, index_delta of Gmail, Drive and Calendar runs a full index and
\* returns its stats: the error is not raised and the run does not end as a
\* delta run that counted an error
C3_ExpiredCursorRunsFullIndex ==
    [][ ( /\ last'.op = "index_delta"
          /\ last'.delta # NoInput
          /\ last'.delta.error = "expired" )
        => /\ last'.ran_full
           /\ (last'.raised => last'.full.cursor_fails)
           /\ (~last'.raised => DOMAIN last'.ret = FullKeys(last'.source)) ]_vars

\* C4: a full index writes the source's terminal cursor into SyncState when
\* it has completed the last page of the listing, and only then: a full index
\* that ended because a listing call failed leaves the stored sync_token of
\* (source, account) as it was before the run
C4_CursorWrittenOnlyOnCompletion ==
    [][ (last'.ran_full /\ last'.source \in Sources)
        => /\ (last'.completed /\ ~last'.raised /\ truthy(last'.full.cursor)
                 => StoredCursor(kg', last'.source, last'.account)
                      = [stored |-> TRUE, sync_token |-> last'.full.cursor])
           /\ (last'.listing_failed
                 => StoredCursor(kg', last'.source, last'.account)
                      = StoredCursor(kg, last'.source, last'.account)) ]_vars

\* the content id under which a full index stores the record of page p
FullContentId(source, account, p, rec) ==
    IF source = "github" THEN GitHubContentId(IF p = 1 THEN "repo" ELSE "commit", rec.id)
    ELSE ContentId(source, account, rec.id)

\* C13: in a full index run of any source indexer whose list calls all
\* succeed, a record whose fetch or transformation raises does not end the
\* run: the call returns its stats, and the content row of every other
\* record the source listed is in the store after the run
C13_FailingRecordDoesNotAbortRun ==
    [][ ( /\ last'.op = "index_all"
          /\ last'.ran_full
          /\ last'.full.fail_at = 0
          /\ last'.full.cursor_fails = FALSE
          /\ last'.full.bad = "error" )
        => /\ ~last'.raised
           /\ \A p \in 1..Len(last'.full.pages) :
                \A i \in 1..Len(last'.full.pages[p]) :
                   LET rec == last'.full.pages[p][i]
                   IN  Fetch(rec, last'.full.bad) = "ok"
                       => kg'.content[FullContentId(last'.source, last'.account, p, rec)]
                          # NoRow ]_vars

\* C14: index_all and index_delta raise only for the pre-flight validation
\* (an account that is not configured): a run for a configured account
\* returns its stats, with an errors counter, whatever list, paging or
\* cursor-fetch call failed inside it
C14_RunsRaiseOnlyForUnknownAccount ==
    [][ ( /\ last'.op \in {"index_all", "index_delta"}
          /\ (last'.source \in Sources => last'.account \in GOOGLE_ACCOUNTS) )
        => /\ ~last'.raised
           /\ HasKey(last'.ret, "errors") ]_vars

\* ------------------------------------------------------------------------
\* Properties of SyncState
\* ------------------------------------------------------------------------
\* the pairs other than (source, account) keep their rows
OtherPairsUnchanged(source, account) ==
    \A k \in DOMAIN kg.sync_state :
        k # <<source, account>> => kg'.sync_state[k] = kg.sync_state[k]

\* what get_last_sync returns after set_last_sync(a), with the metadata given
SyncRow(a, metadata) ==
    [ source |-> a.source, account |-> a.account, last_sync |-> isoformat(a.last_sync),
      last_sync_token |-> a.sync_token, metadata |-> metadata ]

\* C11 as stated: get_last_sync(s, a) returns the timestamp, token and
\* metadata of the most recent set_last_sync(s, a), null if there was none,
\* and a set_last_sync for one pair leaves the rows of every other pair
C11_GetReturnsLastWrite ==
    [][ /\ (last.op = "init" => \A k \in DOMAIN kg.sync_state :
                                    get_last_sync(kg, k[1], k[2]) = NoRow)
        /\ (last'.op = "set_last_sync"
              => /\ get_last_sync(kg', last'.args.source, last'.args.account)
                      = SyncRow(last'.args, last'.args.metadata)
                 /\ OtherPairsUnchanged(last'.args.source, last'.args.account))
        /\ (last'.op # "set_last_sync" => kg'.sync_state = kg.sync_state) ]_vars

\* C11 amended: as stated for the timestamp (returned in its ISO text form)
\* and the token; the metadata returned is the metadata of the most recent
\* set_last_sync(s, a) unless that was an empty dict, which is stored as
\* NULL and returned as None
C11_GetReturnsLastWriteEmptyMetadataAsNone ==
    [][ /\ (last.op = "init" => \A k \in DOMAIN kg.sync_state :
                                    get_last_sync(kg, k[1], k[2]) = NoRow)
        /\ (last'.op = "set_last_sync"
              => /\ get_last_sync(kg', last'.args.source, last'.args.account)
                      = SyncRow(last'.args,
                                IF last'.args.metadata = dict(0, {}) THEN PyNone
                                ELSE last'.args.metadata)
                 /\ OtherPairsUnchanged(last'.args.source, last'.args.account))
        /\ (last'.op # "set_last_sync" => kg'.sync_state = kg.sync_state) ]_vars

\* a later set_last_sync of a pair replaced an earlier one, while another pair
\* keeps the row of its own call
C11_Witness ==
    /\ last.op = "set_last_sync"
    /\ last.args.source = "gmail"
    /\ last.args.last_sync = datetime(1)
    /\ last.args.sync_token = NULL
    /\ get_last_sync(kg, "gmail", "a").last_sync = isoformat(datetime(1))
    /\ get_last_sync(kg, "drive", "a") # NoRow
    /\ get_last_sync(kg, "drive", "a").last_sync_token = "tok1"

\* ------------------------------------------------------------------------
\* Properties of the changelog
\* ------------------------------------------------------------------------
\* the step appended exactly this record and kept every earlier one
Appended(table_name, record_id, action) ==
    kg'.changelog = Append(kg.changelog, [table_name |-> table_name,
                                          record_id |-> record_id, action |-> action])

\* C12: every successful insert, update or delete of an entity or content row
\* appends exactly one changelog record with the matching table, id and
\* action, in the same unit of work as the write (a call that fails leaves
\* both the row and the changelog as they were); a delete of an absent id
\* appends none; and no call modifies or removes an existing record
C12_ChangelogIsAppendOnly ==
    [][ /\ (last'.raised => kg' = kg)
        /\ (~last'.raised /\ last'.op = "upsert_entity"
              => Appended("entities", last'.args.entity_id,
                          IF kg.entities[last'.args.entity_id] = NoRow THEN "insert"
                          ELSE "update"))
        /\ (~last'.raised /\ last'.op = "upsert_content"
              => Appended("content", last'.args.content_id,
                          IF kg.content[last'.args.content_id] = NoRow THEN "insert"
                          ELSE "update"))
        /\ (~last'.raised /\ last'.op = "delete_entity"
              => IF kg.entities[last'.args.id] = NoRow
                 THEN kg'.changelog = kg.changelog
                 ELSE Appended("entities", last'.args.id, "delete"))
        /\ (~last'.raised /\ last'.op = "delete_content"
              => IF kg.content[last'.args.id] = NoRow
                 THEN kg'.changelog = kg.changelog
                 ELSE Appended("content", last'.args.id, "delete"))
        /\ (last'.op \in {"add_relationship", "set_last_sync"}
              => kg'.changelog = kg.changelog)
        /\ Len(kg'.changelog) >= Len(kg.changelog)
        /\ SubSeq(kg'.changelog, 1, Len(kg.changelog)) = kg.changelog ]_vars

\* an entity was inserted and then updated: the changelog holds both records
C12_Witness ==
    /\ last.op = "upsert_entity"
    /\ ~last.raised
    /\ last.ret = FALSE
    /\ kg.changelog = << [table_name |-> "entities", record_id |-> last.args.entity_id,
                          action |-> "insert"],
                        [table_name |-> "entities", record_id |-> last.args.entity_id,
                          action |-> "update"] >>

\* ------------------------------------------------------------------------
\* Properties of search_content
\* ------------------------------------------------------------------------
\* the instant an isoformat() text denotes
Instant(iso) == iso[2][1] - iso[2][2]

\* query is a case-insensitive substring of text
ContainsIgnoringCase(text, query) ==
    /\ text # None_text
    /\ \E i \in 1..(Len(text) - Len(query) + 1) :
          \A k \in 1..Len(query) : lower_char(text[i + k - 1]) = lower_char(query[k])

\* the row satisfies every filter that was supplied
Satisfies(row, a) ==
    /\ a.query # None_text
         => (ContainsIgnoringCase(row.title, a.query) \/ ContainsIgnoringCase(row.body, a.query))
    /\ a.content_type # NULL => row.type = a.content_type
    /\ a.source # NULL => row.source = a.source
    /\ a.source_account # NULL => row.source_account = a.source_account
    /\ a.since # None_dt
         => (row.timestamp # << >> /\ Instant(isoformat(a.since)) <= Instant(row.timestamp))
    /\ a.until # None_dt
         => (row.timestamp # << >> /\ Instant(row.timestamp) <= Instant(isoformat(a.until)))

\* x is not earlier than y; a row without timestamp counts as earliest
NotEarlier(x, y) ==
    y.timestamp = << >> \/ (x.timestamp # << >> /\ Instant(x.timestamp) >= Instant(y.timestamp))

\* C20: search_content returns exactly the content rows that satisfy all the
\* supplied filters at once (query a case-insensitive substring of title or
\* body; type, source, account equal; since <= timestamp <= until with the
\* bounds included), latest first, cut to limit: each returned dict is a
\* stored row that satisfies the filters, no row is returned twice, the
\* number returned is the smaller of limit and the number of satisfying
\* rows, and no satisfying row left out is later than a returned one
C20_SearchContentReturnsTheMatchingRows ==
    [][ last'.op = "search_content"
        => LET a == last'.args
               ret == last'.ret
               matching == {id \in ContentIds :
                               kg.content[id] # NoRow /\ Satisfies(kg.content[id], a)}
               returned == {ret[i].id : i \in 1..Len(ret)}
           IN  /\ returned \subseteq matching
               /\ Cardinality(returned) = Len(ret)
               /\ Len(ret) = IF a.limit < Cardinality(matching) THEN a.limit
                             ELSE Cardinality(matching)
               /\ \A i \in 1..Len(ret) : ret[i] = row_to_dict(kg.content[ret[i].id])
               /\ \A i, j \in 1..Len(ret) : i < j => NotEarlier(ret[i], ret[j])
               /\ \A i \in 1..Len(ret) : \A id \in matching \ returned :
                     NotEarlier(ret[i], kg.content[id]) ]_vars

\* ------------------------------------------------------------------------
\* Properties of the query engine
\* ------------------------------------------------------------------------
\* what each branch handed to the fusion during the search recorded in r
SemanticHits(db, r) ==
    IF r.args.use_semantic
    THEN caught(semantic_search(r.vs, r.args.content_types, r.args.top_k * 2)).ret
    ELSE << >>
KeywordHits(db, r) ==
    IF r.args.use_keyword THEN caught(keyword_search(db, r.args, r.kw)).ret ELSE << >>

HitIds(hits) == {hits[i].id : i \in 1..Len(hits)}
Entries(hits, id) == {i \in 1..Len(hits) : hits[i].id = id}
FirstHit(hits, id) == hits[CHOOSE i \in Entries(hits, id) : \A k \in Entries(hits, id) : i <= k]

Alone(db, r, branch) ==
    search(db, r.vs, r.kw,
           [r.args EXCEPT !.use_semantic = (branch = "semantic"),
                          !.use_keyword = (branch = "keyword")]).ret

\* the collections the semantic branch searches
Searched(r) ==
    LET collections == IF r.args.content_types # << >> THEN r.args.content_types
                       ELSE Collections
    IN  {collections[i] : i \in 1..Len(collections)}

\* C16: search never raises because a branch failed.  When the semantic
\* branch errors (the embedder raises, or every searched collection of the
\* Vector Store is unavailable) it returns exactly what the keyword branch
\* alone returns, and when the keyword branch errors exactly what the
\* semantic branch alone returns
C16_FailedBranchDegradesToTheOther ==
    [][ (last'.op = "search" /\ last'.args.use_semantic /\ last'.args.use_keyword)
        => /\ ~last'.raised
           /\ ( \/ last'.vs.embed = "error"
                \/ \A c \in Searched(last') : ~last'.vs.hits[c].ok )
                => last'.ret = Alone(kg, last', "keyword")
           /\ last'.kw = "error" => last'.ret = Alone(kg, last', "semantic") ]_vars

\* a search whose embedder raised returned a keyword hit all the same
C16_Witness ==
    /\ last.op = "search"
    /\ last.args.use_semantic /\ last.args.use_keyword
    /\ last.vs.embed = "error"
    /\ last.kw = "ok"
    /\ ~last.raised
    /\ Len(last.ret) = 2
    /\ \A i \in 1..Len(last.ret) : last.ret[i].search_type = "keyword"

\* the deduplicated concatenation, semantic first: the entries of the two
\* branches' lists whose id does not occur earlier
Pool(db, r) ==
    LET all == SemanticHits(db, r) \o KeywordHits(db, r)
    IN  {all[i] : i \in {k \in 1..Len(all) : \A e \in 1..(k - 1) : all[e].id # all[k].id}}

\* C17: search returns at most top_k entries in non-increasing score order,
\* and they are the top_k highest-scoring entries of the deduplicated
\* concatenation (semantic first) of the two branches' results: as many of
\* them as there are, up to top_k, each once, none scoring below an entry
\* that was left out
C17_ReturnsTopKByScore ==
    [][ last'.op = "search"
        => LET ret == last'.ret
               pool == Pool(kg, last')
               returned == {ret[i] : i \in 1..Len(ret)}
           IN  /\ Len(ret) <= last'.args.top_k
               /\ Len(ret) = IF last'.args.top_k < Cardinality(pool) THEN last'.args.top_k
                             ELSE Cardinality(pool)
               /\ returned \subseteq pool
               /\ Cardinality(returned) = Len(ret)
               /\ \A i, j \in 1..Len(ret) : i < j => ret[i].score >= ret[j].score
               /\ \A e \in pool \ returned : \A i \in 1..Len(ret) : ret[i].score >= e.score ]_vars

\* a search with top_k = 2 had three entries to choose from and returned a
\* keyword hit ahead of a lower-scoring semantic hit
C17_Witness ==
    /\ last.op = "search"
    /\ last.args.top_k = 2
    /\ Cardinality(Pool(kg, last)) = 3
    /\ Len(last.ret) = 2
    /\ last.ret[1].search_type = "keyword"
    /\ last.ret[2].search_type = "semantic"
    /\ last.ret[1].score > last.ret[2].score

\* the stored row an entry stands for: a keyword entry carries its row's
\* source and timestamp, a semantic entry only the content id
RowOf(db, entry) == db.content[entry.id]

\* C18: every entry search returns satisfies each filter the caller supplied,
\* whichever branch produced it: its type is in content_types, its source
\* is in sources, and its timestamp lies within [since, until]
C18_ReturnedEntriesSatisfyFilters ==
    [][ last'.op = "search"
        => \A i \in 1..Len(last'.ret) :
              LET entry == last'.ret[i]
                  a == last'.args
                  row == RowOf(kg, entry)
              IN  /\ a.content_types # << >>
                       => \E k \in 1..Len(a.content_types) : entry.type = a.content_types[k]
                  /\ row # NoRow
                       => /\ a.sources # {} => row.source \in a.sources
                          /\ a.since # None_dt
                               => /\ row.timestamp # << >>
                                  /\ Instant(isoformat(a.since)) <= Instant(row.timestamp)
                          /\ a.until # None_dt
                               => /\ row.timestamp # << >>
                                  /\ Instant(row.timestamp) <= Instant(isoformat(a.until)) ]_vars

\* the sets of places where query occurs in text, letters compared without
\* regard to case, no two occurrences overlapping
OccurrenceSets(text, query) ==
    {S \in SUBSET (1..(Len(text) - Len(query) + 1)) :
        /\ \A i \in S : \A k \in 1..Len(query) :
              lower_char(text[i + k - 1]) = lower_char(query[k])
        /\ \A i, j \in S : i < j => j - i >= Len(query)}

\* the case-insensitive occurrence count: the most occurrences any such set has
Occurrences(text, query) ==
    IF text = None_text THEN 0
    ELSE CHOOSE n \in 0..(Len(text) + 1) :
            /\ \E S \in OccurrenceSets(text, query) : Cardinality(S) = n
            /\ \A S \in OccurrenceSets(text, query) : Cardinality(S) <= n

\* C19: every keyword-branch hit is scored min((3 * title_hits + body_hits)
\* * 0.1, 0.8), title_hits and body_hits being the case-insensitive
\* occurrence counts of the query in title and body; so the score lies in
\* [0, 0.8] and a hit with no fewer title hits and no fewer body hits than
\* another scores no lower (scores in tenths)
C19_KeywordScoreFormula ==
    [][ (last'.op = "search" /\ last'.args.use_keyword)
        => LET hits == KeywordHits(kg, last')
               T(e) == Occurrences(e.title, last'.args.query)
               B(e) == Occurrences(e.body, last'.args.query)
           IN  /\ \A i \in 1..Len(hits) :
                     /\ hits[i].score = IF 3 * T(hits[i]) + B(hits[i]) < 8
                                        THEN 3 * T(hits[i]) + B(hits[i]) ELSE 8
                     /\ hits[i].score \in 0..8
                     /\ hits[i].search_type = "keyword"
               /\ \A i, j \in 1..Len(hits) :
                     (T(hits[i]) <= T(hits[j]) /\ B(hits[i]) <= B(hits[j]))
                     => hits[i].score <= hits[j].score
               /\ \A i \in 1..Len(last'.ret) :
                     last'.ret[i].search_type = "keyword"
                     => \E k \in 1..Len(hits) : hits[k] = last'.ret[i] ]_vars

\* a search for "a" returned the message titled "aAa" (three title hits, nine
\* points) with the capped score 0.8, and the message titled "Ab" with body
\* "aa" (one title hit, two body hits) with 0.5
C19_Witness ==
    /\ last.op = "search"
    /\ last.args.query = <<"a">>
    /\ Len(last.ret) = 2
    /\ last.ret[1].search_type = "keyword" /\ last.ret[1].id = "gmail:a:2"
    /\ Occurrences(last.ret[1].title, <<"a">>) = 3
    /\ last.ret[1].score = 8
    /\ last.ret[2].search_type = "keyword" /\ last.ret[2].id = "gmail:a:1"
    /\ last.ret[2].score = 5

\* ------------------------------------------------------------------------
\* Properties of the Embedder (SpecEmbed)
\* ------------------------------------------------------------------------
EmbedderCall == last.op \in {"embed", "embed_batch"}
\* the provider's embedding of a text: of the text as it is sent
EmbeddingOf(text) == <<"vec", truncate_text(text)>>

\* C21: whatever the cache holds (hits, misses, a mix, repeated texts),
\* embed_batch(texts) returns a list as long as texts whose i-th vector is
\* the embedding of texts[i].
C21_EmbedBatchReturnsVectorsInInputOrder ==
    (last.op = "embed_batch" /\ ~last.raised) =>
        /\ Len(last.ret) = Len(last.texts)
        /\ \A i \in 1..Len(last.texts) : last.ret[i] = EmbeddingOf(last.texts[i])

\* a batch of three texts with a repeated one, where a hit stands between
\* two misses
C21_Witness ==
    /\ last.op = "embed_batch" /\ ~last.raised
    /\ last.texts = <<"b", "a", "b">>
    /\ last.misses = 2 /\ last.calls > 0

\* the texts of the last call that were embedded successfully before: their
\* entry file is in the cache directory
EmbeddedBefore(e, texts) ==
    \A i \in 1..Len(texts) : in_cache(e.cache_dir, cache_key(texts[i]))

\* C22: once a text has been embedded successfully, every later embed or
\* embed_batch of the same text returns the cached vector without a provider
\* call, later in the same process and after a restart on the same cache
\* directory.
C22_EmbeddedTextNeedsNoProviderCall ==
    [][ (last'.op \in {"embed", "embed_batch"} /\ EmbeddedBefore(embedder, last'.texts)) =>
            /\ ~last'.raised
            /\ last'.calls = 0
            /\ \A i \in 1..Len(last'.texts) :
                  LET vector == cached(embedder.cache_dir, cache_key(last'.texts[i]))
                  IN  IF last'.op = "embed" THEN last'.ret = vector
                      ELSE last'.ret[i] = vector ]_vars

\* C23: a failing provider call is retried, three attempts in all; when the
\* last attempt fails the call of embed / embed_batch raises, returns no
\* vector, and the cache gains no entry.
C23_ThreeAttemptsThenTheErrorPropagates ==
    [][ (last'.op \in {"embed", "embed_batch"} /\ last'.misses > 0) =>
          LET script == last'.script
              batches == (last'.misses + EMBEDDING_BATCH_SIZE - 1) \div EMBEDDING_BATCH_SIZE
              fails(k) == script[k] # 0 /\ script[k] <= batches
          IN  /\ last'.raised <=> \A k \in 1..3 : fails(k)
              /\ last'.raised =>
                    /\ last'.attempts = 3
                    /\ last'.ret = << >>
                    /\ embedder' = embedder
              /\ ~last'.raised =>
                    /\ last'.attempts \in 1..3
                    /\ ~fails(last'.attempts)
                    /\ \A k \in 1..(last'.attempts - 1) : fails(k) ]_vars

\* an embed_batch whose provider call failed in all three attempts, on an
\* embedder that had cached a text before
C23_Witness ==
    /\ last.op = "embed_batch" /\ last.raised
    /\ last.attempts = 3 /\ last.calls >= 3
    /\ embedder.cache # {}

\* a call that succeeded at the second attempt
C23_RetryWitness ==
    /\ EmbedderCall /\ ~last.raised /\ last.attempts = 2

\* ------------------------------------------------------------------------
\* Properties of the TextChunker (SpecChunk)
\* ------------------------------------------------------------------------
\* the text without its leading and trailing whitespace
Stripped(text) ==
    LET inner == {i \in 1..Len(text) : text[i] \notin whitespace}
    IN  IF inner = {} THEN << >>
        ELSE SubSeq(text, CHOOSE i \in inner : \A j \in inner : i <= j,
                          CHOOSE i \in inner : \A j \in inner : i >= j)

\* C26: for any chunker configuration, chunk(text) returns no chunk for the
\* empty text and, for a non-empty text shorter than min_chunk_size, exactly
\* one chunk, with chunk_index 0, whose text is the stripped input.
C26_ShortTextIsOneVerbatimChunk ==
    last.op = "chunk" =>
        /\ last.text = << >> => last.ret = << >>
        /\ (last.text # << >> /\ Len(last.text) < last.self.min_chunk_size) =>
              /\ Len(last.ret) = 1
              /\ last.ret[1].text = Stripped(last.text)
              /\ last.ret[1].chunk_index = 0

\* a short text of two lines with whitespace at its end
C26_Witness ==
    /\ last.op = "chunk"
    /\ last.text = <<"A", "\n", "b", " ">>
    /\ last.self.min_chunk_size > 4
    /\ Len(last.ret) = 1

\* the sentences of a text, and sentences c..b joined by single spaces
SentencesOf(text) ==
    LET found == split_into_sentences(text) IN [i \in 1..Len(found) |-> found[i].sentence]
Joined(S, c, b) == IF c > b THEN << >> ELSE join(SubSeq(S, c, b))
BeginsWith(text, prefix) ==
    Len(prefix) <= Len(text) /\ SubSeq(text, 1, Len(prefix)) = prefix
EndsWith(text, suffix) ==
    Len(suffix) <= Len(text)
    /\ SubSeq(text, Len(text) - Len(suffix) + 1, Len(text)) = suffix

\* chunks k.. are sentences lo..hi each, where chunk k starts at or after
\* lo_min and inside or right after the previous chunk, which ended at
\* hi_prev, and goes beyond it: without the overlap prefixes lo..hi_prev the
\* chunks are the sentences in order, each once
RECURSIVE Aligned(_, _, _, _, _)
Aligned(S, chunks, k, lo_min, hi_prev) ==
    \E lo \in lo_min..(hi_prev + 1) : \E hi \in (hi_prev + 1)..Len(S) :
        /\ chunks[k].text = Joined(S, lo, hi)
        /\ IF k = Len(chunks) THEN hi = Len(S)
           ELSE Aligned(S, chunks, k + 1, lo, hi)

\* C27: no sentence is lost by chunking a text of min_chunk_size characters
\* or more: a final leftover shorter than min_chunk_size is merged into the
\* previous chunk, and the chunk texts without their overlap prefixes are
\* the sentences in their order, each exactly once.
C27_NoSentenceIsLost ==
    (last.op = "chunk" /\ Len(last.text) >= last.self.min_chunk_size) =>
        LET S == SentencesOf(last.text)
        IN  IF last.ret = << >> THEN S = << >>
            ELSE Aligned(S, last.ret, 1, 1, 0)

\* the overlap of two consecutive chunks is sentences c..b, trailing whole
\* sentences of the earlier chunk, of joined length at most O; it is empty
\* exactly when the last sentence alone is longer than O
Overlaps(earlier, later, S, O, c, b) ==
    /\ EndsWith(earlier.text, S[b])
    /\ EndsWith(earlier.text, Joined(S, c, b))
    /\ BeginsWith(later.text, IF c <= b THEN Joined(S, c, b) \o <<" ">> \o S[b + 1]
                              ELSE S[b + 1])
    /\ Len(Joined(S, c, b)) <= O
    /\ (c = b + 1) <=> (Len(S[b]) > O)

\* C28: with chunk_overlap O < chunk_size, a later chunk begins with the
\* trailing whole sentences of the chunk before it whose joined length is at
\* most O: as many of them as fit in O, none when the last sentence alone is
\* longer than O; the span two consecutive chunks share is never longer
\* than O.
C28_OverlapLaw ==
    (last.op = "chunk" /\ Len(last.text) >= last.self.min_chunk_size
        /\ last.self.chunk_overlap < last.self.chunk_size) =>
        LET S == SentencesOf(last.text)
            O == last.self.chunk_overlap
        IN  \A k \in 1..(Len(last.ret) - 1) :
              \E b \in 1..(Len(S) - 1) : \E c \in 1..(b + 1) :
                  /\ Overlaps(last.ret[k], last.ret[k + 1], S, O, c, b)
                  /\ (c > 1 /\ EndsWith(last.ret[k].text, Joined(S, c - 1, b)))
                        => Len(Joined(S, c - 1, b)) > O

\* the part of the overlap law that does not say how many sentences are
\* taken: the later chunk begins with trailing whole sentences of the earlier
\* one, within O characters, with the last sentence among them when it fits
C28_OverlapIsTrailingSentencesWithinO ==
    (last.op = "chunk" /\ Len(last.text) >= last.self.min_chunk_size
        /\ last.self.chunk_overlap < last.self.chunk_size) =>
        LET S == SentencesOf(last.text)
            O == last.self.chunk_overlap
        IN  \A k \in 1..(Len(last.ret) - 1) :
              \E b \in 1..(Len(S) - 1) : \E c \in 1..(b + 1) :
                  Overlaps(last.ret[k], last.ret[k + 1], S, O, c, b)

\* three chunks, the second of which begins with two sentences of the first
C28_Witness ==
    /\ last.op = "chunk" /\ last.self.chunk_overlap < last.self.chunk_size
    /\ Len(last.ret) >= 3
    /\ \E S \in {SentencesOf(last.text)} :
          \E b \in 2..(Len(S) - 1) :
              /\ EndsWith(last.ret[1].text, Joined(S, b - 1, b))
              /\ BeginsWith(last.ret[2].text, Joined(S, b - 1, b + 1))

\* two chunks without overlap, the last sentence of the first being longer
\* than chunk_overlap
C28_NoOverlapWitness ==
    /\ last.op = "chunk" /\ last.self.chunk_overlap = 2
    /\ Len(last.ret) >= 2
    /\ EndsWith(last.ret[1].text, Sentence(3))
    /\ \E n \in 1..3 : last.ret[2].text = Sentence(n)

\* ------------------------------------------------------------------------
\* Properties of the SemanticIndexer (SpecSemantic)
\* ------------------------------------------------------------------------
\* an item fails when its chunking raises or the provider rejects one of its
\* chunks (a text that is in the cache is not sent to the provider)
ItemFails(item, e, rejected) ==
    \E one \in {chunk_content(item)} :
        \/ one.raised
        \/ \E k \in 1..Len(one.chunks) :
              /\ truncate_text(one.chunks[k].text) \in rejected
              /\ ~in_cache(e.cache, cache_key(one.chunks[k].text))

\* every chunk of the item is a vector of the collection of its type
Stored(item, vs) ==
    \E one \in {chunk_content(item)} :
        \A k \in 1..Len(one.chunks) :
            \E v \in vs :
                /\ v.collection = item.type
                /\ v.id = <<get(one.chunks[k].metadata, "source_id", "unknown"),
                            one.chunks[k].chunk_index>>
                /\ v.document = one.chunks[k].text
                /\ v.embedding = EmbeddingOf(one.chunks[k].text)

\* C24: index_all never raises because the chunking or the embedding of one
\* content item failed: the failure is counted in errors, the remaining items
\* are chunked, embedded and stored, and the stats are returned.
C24_FailingItemDoesNotStopIndexAll ==
    [][ last'.op = "index_all" =>
          LET items == content_items_of(kg, last'.content_types)
              failing == {i \in 1..Len(items) : ItemFails(items[i], embedder, last'.rejected)}
          IN  /\ ~last'.raised
              /\ (failing # {}) <=> (last'.ret.errors > 0)
              /\ \A i \in (1..Len(items)) \ failing : Stored(items[i], vector_store') ]_vars

\* the part of C24 about the call itself: it returns its stats, with an
\* error counted exactly when an item failed
C24_IndexAllReturnsItsStats ==
    [][ last'.op = "index_all" =>
          LET items == content_items_of(kg, last'.content_types)
              failing == {i \in 1..Len(items) : ItemFails(items[i], embedder, last'.rejected)}
          IN  /\ ~last'.raised
              /\ (failing # {}) <=> (last'.ret.errors > 0)
              /\ failing = {} => \A i \in 1..Len(items) : Stored(items[i], vector_store') ]_vars

\* the vectors of a content: those with id content_id:chunk:N
VectorsOf(vs, collection, content_id) ==
    {v \in vs : v.collection = collection /\ v.id[1] = content_id}

\* C25: after delete_content(content_id, content_type) the collection holds
\* no vector with id content_id:chunk:N, and the vectors of other content are
\* unchanged.
C25_DeleteContentRemovesTheChunksOfTheContent ==
    [][ last'.op = "delete_content" =>
          vector_store' = vector_store
                          \ VectorsOf(vector_store, last'.content_type, last'.content_id) ]_vars

\* ------------------------------------------------------------------------
\* Properties of concurrent upserts (SpecConcurrent)
\* ------------------------------------------------------------------------
\* C29: concurrent upserts of one id both complete without error, and the
\* stored row is that of the call that wrote last; no interleaving makes a
\* call fail.
C29_ConcurrentUpsertsBothComplete ==
    [][ (last'.op = "upsert_entity" /\ sessions' # sessions) =>
          /\ ~last'.raised
          /\ kg'.entities[last'.args.entity_id] # NoRow
          /\ kg'.entities[last'.args.entity_id].name = last'.args.name
          /\ kg'.entities[last'.args.entity_id].metadata = json_dumps(last'.args.metadata) ]_vars

\* the calls that complete leave the row of the one that committed last
C29_LastCommitWins ==
    [][ (last'.op = "upsert_entity" /\ sessions' # sessions /\ ~last'.raised) =>
          /\ kg'.entities[last'.args.entity_id] # NoRow
          /\ kg'.entities[last'.args.entity_id].name = last'.args.name
          /\ kg'.entities[last'.args.entity_id].metadata = json_dumps(last'.args.metadata) ]_vars

\* ------------------------------------------------------------------------
\* Properties of the conversation manager
\* ------------------------------------------------------------------------
\* the (user, channel, thread) a context was made for
ConversationOf(context) == <<context.user_id, context.channel_id, context.thread_ts>>

\* the contexts a manager holds for a (user, channel, thread)
ContextsOf(m, a) ==
    {m.conversations[k] : k \in {j \in DOMAIN m.conversations :
                                    ConversationOf(m.conversations[j]) = a}}

\* C30: the manager holds at most one context per (user, channel, thread);
\* get_or_create returns the context of the (user, channel, thread) it was
\* called with: the one the manager holds, history intact and nothing
\* created, while that one is unexpired, and a new one only when the manager
\* holds no unexpired one; contexts of different threads of one user and
\* channel are different contexts
C30_OneContextPerConversation ==
    [][ /\ \A a \in Conversations : Cardinality(ContextsOf(manager', a)) <= 1
        /\ \A j, k \in DOMAIN manager'.conversations :
              j # k => manager'.conversations[j].id # manager'.conversations[k].id
        /\ last'.op = "get_or_create" =>
              LET held == {c \in ContextsOf(manager, last'.args) : ~is_expired(c, now)}
              IN  /\ ConversationOf(last'.ret) = last'.args
                  /\ ContextsOf(manager', last'.args) = {last'.ret}
                  /\ \A c \in held :
                        /\ last'.ret.id = c.id
                        /\ last'.ret.history = c.history
                        /\ manager'.next_id = manager.next_id
                  /\ manager'.next_id # manager.next_id =>
                        /\ held = {}
                        /\ last'.ret.id = manager.next_id
                        /\ last'.ret.history = << >>
      ]_vars

\* get_or_create has returned, some time after its last message, a context
\* that has history, while the manager holds another context for another
\* thread of the same user and channel
C30_Witness ==
    /\ last.op = "get_or_create"
    /\ last.ret.history # << >>
    /\ last.ret.history[Len(last.ret.history)].timestamp < now
    /\ \E k \in DOMAIN manager.conversations :
          /\ manager.conversations[k].user_id = last.ret.user_id
          /\ manager.conversations[k].channel_id = last.ret.channel_id
          /\ manager.conversations[k].thread_ts # last.ret.thread_ts
          /\ manager.conversations[k].id # last.ret.id

\* get_or_create has replaced an expired context that the periodic cleanup
\* had not removed
C30_ExpiredWitness ==
    /\ last.op = "get_or_create"
    /\ last.ret.id > 1
    /\ last.ret.last_activity = now
    /\ now > CONVERSATION_TTL
    /\ manager.last_cleanup = CONVERSATION_TTL

\* ------------------------------------------------------------------------
\* Properties of the conversation context
\* ------------------------------------------------------------------------
\* the history of the one context
History == manager.conversations[TheContext].history
\* the last n elements of a sequence that has at least n
LastOf(seq, n) == SubSeq(seq, Len(seq) - n + 1, Len(seq))
\* the smaller of two numbers
Min(a, b) == IF a < b THEN a ELSE b

\* the history holds the most recently added messages, at most
\* MAX_HISTORY_LENGTH of them, in the order they were added
HistoryIsTheLatestMessages ==
    /\ Len(History) = Min(last.added, MAX_HISTORY_LENGTH)
    /\ \A i \in 1 .. Len(History) :
          History[i].content = Message(last.added - Len(History) + i - 1)

\* C31: after any sequence of add_message calls the history holds at most
\* MAX_HISTORY_LENGTH entries, the most recently added messages in insertion
\* order, and get_recent_history(n) returns the last min(n, len(history)) of
\* them
C31_HistoryAndRecentHistory ==
    /\ HistoryIsTheLatestMessages
    /\ last.op = "get_recent_history" =>
          last.ret = LastOf(History, Min(last.count, Len(History)))

\* the part of C31 on add_message alone
C31_HistoryHoldsTheLatestMessages ==
    /\ Len(History) <= MAX_HISTORY_LENGTH
    /\ HistoryIsTheLatestMessages

\* the part of C31 on get_recent_history, for a count of one or more
C31_RecentHistoryOfAPositiveCount ==
    (last.op = "get_recent_history" /\ last.count >= 1) =>
        last.ret = LastOf(History, Min(last.count, Len(History)))

\* get_recent_history(0) has returned every message of a trimmed history
C31_ZeroCountWitness ==
    /\ last.op = "get_recent_history"
    /\ last.count = 0
    /\ last.added > MAX_HISTORY_LENGTH
    /\ last.ret = History
    /\ last.ret # << >>

\* ------------------------------------------------------------------------
\* Properties of the counters of the source indexers
\* ------------------------------------------------------------------------
\* the counters of a delta run of Drive and Calendar
AddedKey(source) == IF source = "drive" THEN "files_added" ELSE "events_added"
UpdatedKey(source) == IF source = "drive" THEN "files_updated" ELSE "events_updated"
DeletedKey(source) == IF source = "drive" THEN "files_deleted" ELSE "events_deleted"

\* the changes of a listing that are removals, and those that are not
RemovalsOf(changes) == {i \in 1..Len(changes) : changes[i].removed}
UpsertsOf(changes) == {i \in 1..Len(changes) : ~changes[i].removed}

\* a Drive or Calendar delta run has listed its changes
DeltaRunOf(run, sources) ==
    /\ run.op = "index_delta"
    /\ run.source \in sources
    /\ run.delta # NoInput
    /\ run.delta.error = "none"
    /\ ~run.raised

\* C32: in a delta run of Drive or Calendar every add/update change that is
\* applied (its content row is written by the run) increments exactly one of
\* the added / updated counters, added when the content id was new and
\* updated otherwise, and is not counted in errors; a removal is counted as
\* deleted only when the content was present
C32_DeltaCountsEveryAppliedChange ==
    [][ DeltaRunOf(last', {"drive", "calendar"})
        => LET changes == last'.delta.changes
               id(i) == ContentId(last'.source, last'.account, changes[i].id)
               applied == {i \in UpsertsOf(changes) :
                              /\ kg'.content[id(i)] # NoRow
                              /\ kg'.content[id(i)].updated_at = now}
               new == {i \in applied : kg.content[id(i)] = NoRow}
           IN  /\ last'.ret[AddedKey(last'.source)] = Cardinality(new)
               /\ last'.ret[UpdatedKey(last'.source)] = Cardinality(applied \ new)
               /\ last'.ret["errors"] <= Cardinality(UpsertsOf(changes) \ applied)
               /\ last'.ret[DeletedKey(last'.source)] =
                      Cardinality({i \in RemovalsOf(changes) : kg.content[id(i)] # NoRow})
      ]_vars

\* the parts of C32 on changes of content that is already stored and on
\* removals
C32_DeltaCountsUpdatesAndRemovals ==
    [][ DeltaRunOf(last', {"drive", "calendar"})
        => LET changes == last'.delta.changes
               id(i) == ContentId(last'.source, last'.account, changes[i].id)
               applied == {i \in UpsertsOf(changes) :
                              /\ kg'.content[id(i)] # NoRow
                              /\ kg'.content[id(i)].updated_at = now}
               old == {i \in applied : kg.content[id(i)] # NoRow}
           IN  /\ last'.ret[UpdatedKey(last'.source)] = Cardinality(old)
               /\ last'.ret[DeletedKey(last'.source)] =
                      Cardinality({i \in RemovalsOf(changes) : kg.content[id(i)] # NoRow})
      ]_vars

\* a delta run has written the row of a new content id and counted an error
\* for it
C32_NewContentCountedAsError ==
    /\ DeltaRunOf(last, {"drive", "calendar"})
    /\ Len(last.delta.changes) = 1
    /\ ~last.delta.changes[1].removed
    /\ kg.content[ContentId(last.source, last.account, last.delta.changes[1].id)].created_at
           = now - 1
    /\ last.ret[AddedKey(last.source)] = 0
    /\ last.ret["errors"] = 1

\* the counters of content a full index run reports
ContentCounters ==
    {"messages_indexed", "files_indexed", "content_indexed", "events_indexed",
     "repos_indexed", "issues_indexed", "prs_indexed", "commits_indexed"}

\* the rows a run has added
NewContent(before, after) ==
    {i \in ContentIds : before.content[i] = NoRow /\ after.content[i] # NoRow}
NewEntities(before, after) ==
    {i \in EntityIds : before.entities[i] = NoRow /\ after.entities[i] # NoRow}

\* a row without the time of its last write
RowBut(row) == IF row = NoRow THEN row ELSE [row EXCEPT !.updated_at = 0]

\* a full index run that ended without an error is run again on the same
\* answers of the source
RunAgain(first, second) ==
    /\ first.op = "index_all" /\ second.op = "index_all"
    /\ ~first.raised /\ ~second.raised
    /\ first.completed /\ second.completed
    /\ first.ret["errors"] = 0 /\ second.ret["errors"] = 0
    /\ first.source = second.source
    /\ first.account = second.account
    /\ first.full = second.full

\* the counters of a run count only rows that are new, and a full index run
\* again on an unchanged source changes no row and counts nothing, for the
\* sources and the counters named
CountersCountNewRows(sources, counters) ==
      ( (last'.op = "index_all" /\ ~last'.raised /\ last'.source \in sources)
        => /\ \A k \in DOMAIN last'.ret \cap counters :
                 last'.ret[k] <= Cardinality(NewContent(kg, kg'))
           /\ "people_extracted" \in DOMAIN last'.ret
                 => last'.ret["people_extracted"] <= Cardinality(NewEntities(kg, kg'))
           /\ RunAgain(last, last')
                 => /\ \A i \in ContentIds : RowBut(kg'.content[i]) = RowBut(kg.content[i])
                    /\ \A i \in EntityIds : RowBut(kg'.entities[i]) = RowBut(kg.entities[i])
                    /\ \A k \in DOMAIN last'.ret \cap (counters \cup {"people_extracted"}) :
                          last'.ret[k] = 0 )

\* C33: in every source indexer an extraction or indexing counter is
\* incremented for a record only when its upsert returned is_new; so a full
\* index run again over an unchanged source leaves the content and the
\* entities as they are and reports no newly indexed item
C33_CountersCountOnlyNewRows ==
    [][CountersCountNewRows(Sources \cup {"github"}, ContentCounters)]_vars

\* C33 for the counters that are behind "if is_new": those of Gmail, Drive
\* and Calendar but content_indexed
C33_GoogleCountersCountOnlyNewRows ==
    [][CountersCountNewRows(Sources, ContentCounters \ {"content_indexed"})]_vars

\* the GitHub full index, run again on the same repositories and commits, has
\* counted them again
C33_CountedAgain ==
    /\ last.op = "index_all"
    /\ last.source = "github"
    /\ ~last.raised
    /\ last.ret["errors"] = 0
    /\ last.ret["repos_indexed"] = 2
    /\ \A i \in ContentIds : kg.content[i] # NoRow => kg.content[i].created_at = 0
    /\ now = 2

\* ------------------------------------------------------------------------
\* Properties of the edges the indexers add
\* ------------------------------------------------------------------------
\* the records of a full listing
ListedRecords(full) ==
    UNION {{full.pages[p][i] : i \in 1..Len(full.pages[p])} : p \in 1..Len(full.pages)}

\* the default limit of get_person_activity
activity_limit == 20

\* a full index run of Gmail, Drive or Calendar has written, without counting
\* an error, the content row of a listed record that names a person
IndexedWithPerson(run, before, after, t, rec) ==
    /\ run.op = "index_all"
    /\ run.source \in Sources
    /\ ~run.raised
    /\ run.ret["errors"] = 0
    /\ rec \in ListedRecords(run.full)
    /\ rec.person # ""
    /\ after.content[ContentId(run.source, run.account, rec.id)] # NoRow
    /\ after.content[ContentId(run.source, run.account, rec.id)].title = rec.title
    /\ after.content[ContentId(run.source, run.account, rec.id)].updated_at = t

\* C34: after an indexer has indexed a record from which a person was
\* extracted, the store holds the edge from the content id of the record to
\* the entity id of the person: get_relationships(person_id, "incoming")
\* includes it and get_person_activity(person_id) returns the record
C34_IndexedRecordHasItsPersonEdge ==
    [][ \A rec \in {A1, A2, B1} :
          IndexedWithPerson(last', kg, kg', now, rec)
          => LET content_id == ContentId(last'.source, last'.account, rec.id)
                 person_id == PersonId(rec.person)
                 incoming == get_relationships(kg', person_id, "None", "incoming")
                 activity == get_person_activity(kg', person_id, << >>, activity_limit)
             IN  /\ \E r \in kg'.relationships :
                       r.from_id = content_id /\ r.to_id = person_id
                 /\ \E i \in 1..Len(incoming) : incoming[i].from_id = content_id
                 /\ \E i \in 1..Len(activity) : activity[i].id = content_id
      ]_vars

\* the part of C34 on the rows: the person and the record are stored
C34_IndexedRecordAndPersonAreStored ==
    [][ \A rec \in {A1, A2, B1} :
          IndexedWithPerson(last', kg, kg', now, rec)
          => /\ kg'.entities[PersonId(rec.person)] # NoRow
             /\ get_content(kg', ContentId(last'.source, last'.account, rec.id)) # NoRow
      ]_vars

\* a full index run has stored a record and its person, and no edge at all
C34_NoEdgeWitness ==
    /\ \E rec \in {A1, A2, B1} :
          /\ last.op = "index_all"
          /\ IndexedWithPerson(last, kg, kg, now - 1, rec)
          /\ kg.entities[PersonId(rec.person)] # NoRow
    /\ kg.relationships = {}

\* ------------------------------------------------------------------------
\* Properties of the chunk indices
\* ------------------------------------------------------------------------
\* C35: the n chunks chunk returns carry chunk_index 0, 1, ..., n-1 in output
\* order, also when the leftover was merged into the previous chunk, and
\* chunk_document stamps every chunk with its chunk_index and with
\* total_chunks = n
C35_ChunkIndicesCountFromZero ==
    /\ last.op \in {"chunk", "chunk_document"} =>
          \A i \in 1..Len(last.ret) : last.ret[i].chunk_index = i - 1
    /\ last.op = "chunk_document" =>
          \A i \in 1..Len(last.ret) :
              /\ last.ret[i].metadata.chunk_index = i - 1
              /\ last.ret[i].metadata.total_chunks = Len(last.ret)

\* the text the chunker is given by the call in last
GivenText ==
    IF last.op = "chunk_document" /\ last.title # << >>
    THEN last.title \o <<"\n", "\n">> \o last.text
    ELSE last.text

\* the leftover of the text was merged into the chunk before it
LeftoverMerged ==
    /\ Len(GivenText) >= last.self.min_chunk_size
    /\ With(accumulate(last.self, split_into_sentences(GivenText),
                       [ chunks |-> << >>, current_chunk |-> << >>, current_start |-> 0,
                         current_length |-> 0, chunk_index |-> 0 ], PyNone),
            LAMBDA c : /\ c.current_chunk # << >>
                       /\ c.chunks # << >>
                       /\ Len(join(c.current_chunk)) < last.self.min_chunk_size)

\* chunk_document has returned two chunks or more, the last of them with the
\* leftover merged into it
C35_Witness ==
    /\ last.op = "chunk_document"
    /\ Len(last.ret) >= 2
    /\ LeftoverMerged

\* chunk has returned two chunks or more, the last of them with the leftover
\* merged into it
C35_ChunkWitness ==
    /\ last.op = "chunk"
    /\ Len(last.ret) >= 2
    /\ LeftoverMerged


\* ------------------------------------------------------------------------
\* Properties of the bot's confirmation buttons
\* ------------------------------------------------------------------------
\* the keys of the live conversations of a user in a channel that hold a
\* pending action which is ready
ReadyPendingOf(m, user_id, channel_id, t) ==
    { k \in DOMAIN m.conversations :
        /\ m.conversations[k].user_id = user_id
        /\ m.conversations[k].channel_id = channel_id
        /\ ~is_expired(m.conversations[k], t)
        /\ m.conversations[k].pending_action # PyNone
        /\ is_ready(m.conversations[k].pending_action) }

\* the keys of the conversations of a user in a channel that hold a pending
\* action
PendingOf(m, user_id, channel_id) ==
    { k \in DOMAIN m.conversations :
        /\ m.conversations[k].user_id = user_id
        /\ m.conversations[k].channel_id = channel_id
        /\ m.conversations[k].pending_action # PyNone }

\* the step is a press of a button
Pressed == last'.op = "handle_action_confirmation" /\ last'.events = last.events + 1

\* a press of a button by a user whose conversation holds a ready pending
\* action executes it once when it is confirm, never when it is cancel, and
\* leaves no pending action; the press is answered with the expiry text only
\* when there was no pending action
ButtonActsOnThePendingAction ==
    Pressed =>
        /\ ReadyPendingOf(manager, last'.user_id, last'.channel_id, now) # {} =>
              /\ last'.executed = last.executed + (IF last'.confirmed THEN 1 ELSE 0)
              /\ PendingOf(manager', last'.user_id, last'.channel_id) = {}
        /\ last'.said = ThisActionHasExpired =>
              PendingOf(manager, last'.user_id, last'.channel_id) = {}

\* C36: when a user's conversation holds a ready pending action set by a
\* handled message and the user presses confirm, the action is executed
\* exactly once and the pending action is cleared; cancel clears it without
\* executing; the button is answered "This action has expired." only when no
\* pending action exists
C36_ButtonActsOnThePendingAction == [][ButtonActsOnThePendingAction]_vars

\* C36: what the code does: a message is kept under its thread_ts or its ts,
\* the button looks under no thread, so every press is answered with the
\* expiry text, executes nothing and leaves every pending action in place
C36_EveryPressIsAnsweredExpired ==
    [][Pressed =>
          /\ last'.said = ThisActionHasExpired
          /\ last'.executed = last.executed
          /\ \A user_id \in BotUsers, channel_id \in BotChannels :
                PendingOf(manager', user_id, channel_id)
                    = PendingOf(manager, user_id, channel_id) \cap DOMAIN manager'.conversations]_vars

\* C36: confirm was pressed by a user whose conversation held a ready
\* pending action, nothing was executed and the action is still pending
C36_ConfirmNotExecuted ==
    /\ last.op = "handle_action_confirmation"
    /\ last.confirmed
    /\ last.said = ThisActionHasExpired
    /\ last.executed = 0
    /\ ReadyPendingOf(manager, last.user_id, last.channel_id, now) # {}


\* ------------------------------------------------------------------------
\* Properties of a full index run interleaved with source changes
\* ------------------------------------------------------------------------
\* the store holds the item of a native id as the source holds it now
PresentAndCurrent(id) ==
    LET row == kg.content[ContentId(remote.source, "a", id)]
    IN  /\ row # NoRow
        /\ row.title = remote.items[id].title

\* the last run was the first delta run after a full index, and it went
\* through without an error
FirstDeltaSucceeded ==
    /\ last.op = "index_delta"
    /\ sessions.indexer.deltas = 1
    /\ ~last.raised
    /\ ~last.listing_failed
    /\ last.ret["errors"] = 0

\* C37: an item added or changed at the source while a full index run was
\* between its listing and its set_last_sync is present and current in the
\* store after that run and one successful delta run
C37_NoChangeLostDuringFullIndex ==
    FirstDeltaSucceeded =>
        \A id \in sessions.indexer.before_cursor \cup sessions.indexer.after_cursor :
            remote.items[id] # NoRecord => PresentAndCurrent(id)

\* C37: what holds: the items changed only after the run had asked for its
\* cursor are present and current after one successful delta run
C37_ChangeAfterTheCursorIsNotLost ==
    FirstDeltaSucceeded =>
        \A id \in sessions.indexer.after_cursor \ sessions.indexer.before_cursor :
            remote.items[id] # NoRecord => PresentAndCurrent(id)

\* C37: an item was added while the full index was between its listing and
\* its cursor, the delta run that followed listed no change and succeeded,
\* and the store does not hold the item
C37_LostChange ==
    /\ FirstDeltaSucceeded
    /\ last.delta.changes = << >>
    /\ \E id \in sessions.indexer.before_cursor :
          /\ remote.items[id] # NoRecord
          /\ kg.content[ContentId(remote.source, "a", id)] = NoRow

\* C37: a file changed after the cursor was handed out is brought up to date
\* by the delta run
C37_CaughtUpWitness ==
    /\ FirstDeltaSucceeded
    /\ \E id \in sessions.indexer.after_cursor \ sessions.indexer.before_cursor :
          /\ remote.items[id] # NoRecord
          /\ PresentAndCurrent(id)


\* ------------------------------------------------------------------------
\* Properties of a delta batch delivered twice
\* ------------------------------------------------------------------------
\* the last run was a delta run that applied the batch the source listed
Delivered ==
    /\ last.op = "index_delta"
    /\ last.delta # NoInput
    /\ last.delta.error = "none"
    /\ ~last.raised
    /\ ~last.ran_full

\* the store after the batch of the last run is delivered once more, at
\* time t
DeliveredAgain(t) ==
    index_delta(last.source, kg, last.account, last.delta, NoInput, t).db

\* C38: delivering the same batch of changes twice leaves the content and
\* entity rows identical to delivering it once; the second delivery is made
\* within the clock tick of the first (every run moves the clock on by one),
\* so that no row differs by the time of its write alone
C38_DeltaBatchIsIdempotent ==
    Delivered =>
        With(DeliveredAgain(now - 1), LAMBDA twice :
            /\ twice.content = kg.content
            /\ twice.entities = kg.entities)

\* C38: what holds: after a batch that was applied without an error, a
\* second delivery at a later time changes nothing in the content and entity
\* rows but the time of their last write
C38_ErrorFreeBatchIsIdempotent ==
    (Delivered /\ last.ret["errors"] = 0) =>
        With(DeliveredAgain(now), LAMBDA twice :
            /\ \A i \in ContentIds : RowBut(twice.content[i]) = RowBut(kg.content[i])
            /\ \A i \in EntityIds : RowBut(twice.entities[i]) = RowBut(kg.entities[i]))

\* C38: a Gmail batch with a message of a new sender was delivered: the
\* store holds the sender and not the message, and holds the message once
\* the batch is delivered again
C38_SecondDeliveryStoresTheMessage ==
    /\ Delivered
    /\ last.source = "gmail"
    /\ \E i \in 1..Len(last.delta.changes) :
          LET c == last.delta.changes[i]
              id == ContentId("gmail", last.account, c.id)
          IN  /\ ~c.removed
              /\ c.rec.person # ""
              /\ kg.entities[PersonId(c.rec.person)] # NoRow
              /\ kg.content[id] = NoRow
              /\ DeliveredAgain(now - 1).content[id] # NoRow

\* C38: a batch that changes a stored row was applied without an error
C38_ErrorFreeWitness ==
    /\ Delivered
    /\ last.ret["errors"] = 0
    /\ \E i \in 1..Len(last.delta.changes) :
          LET c == last.delta.changes[i]
              id == ContentId(last.source, last.account, c.id)
          IN  /\ ~c.removed
              /\ kg.content[id] # NoRow
              /\ kg.content[id].updated_at = now - 1


\* ------------------------------------------------------------------------
\* Properties of index_content on content that is indexed again
\* ------------------------------------------------------------------------
\* the chunks of the body of a call of index_content
ChunksOfCall(a) ==
    IF or_empty(a.body) = << >> THEN << >>
    ELSE chunk_content([ id |-> a.content_id, type |-> a.content_type, title |-> a.title,
                         body |-> a.body, metadata |-> a.metadata,
                         source_account |-> NULL, timestamp |-> << >> ]).chunks

\* the id and the text of the vectors of a content
Held(vs, collection, content_id) ==
    {[id |-> v.id, document |-> v.document] : v \in VectorsOf(vs, collection, content_id)}

\* the id and the text the chunks of a content are stored under
Chunked(content_id, chunks) ==
    {[id |-> <<content_id, chunks[k].chunk_index>>, document |-> chunks[k].text] :
        k \in 1..Len(chunks)}

\* C39: after index_content returns, the vectors of content_id in its
\* collection are exactly the chunks of the body just indexed: none is left
\* from an earlier, longer body
C39_VectorsAreTheChunksOfTheBody ==
    [][ (last'.op = "index_content" /\ ~last'.raised) =>
          Held(vector_store', last'.args.content_type, last'.args.content_id)
              = Chunked(last'.args.content_id, ChunksOfCall(last'.args)) ]_vars

\* C39: what holds: the chunks of the body just indexed are among the
\* vectors of content_id, every other vector of it was there before the
\* call, and indexing an unchanged body again leaves the ids and the texts
\* of its vectors, and so their count, as they were
C39_ChunksAreUpserted ==
    [][ (last'.op = "index_content" /\ ~last'.raised) =>
          LET a == last'.args
              chunked == Chunked(a.content_id, ChunksOfCall(a))
              before == Held(vector_store, a.content_type, a.content_id)
              after == Held(vector_store', a.content_type, a.content_id)
          IN  /\ chunked \subseteq after
              /\ (after \ chunked) \subseteq before
              /\ (chunked \subseteq before) => (after = before)
              /\ last'.ret = Len(ChunksOfCall(a)) ]_vars

\* C39: index_content has returned for a body of fewer chunks than the body
\* indexed before, and a vector of the earlier body is still held
C39_StaleChunk ==
    /\ last.op = "index_content"
    /\ ~last.raised
    /\ \E v \in VectorsOf(vector_store, last.args.content_type, last.args.content_id) :
          v.id[2] >= last.ret

\* C39: a body of two chunks has been indexed again and holds two vectors
C39_ReindexedWitness ==
    /\ last.op = "index_content"
    /\ ~last.raised
    /\ last.ret = 2
    /\ Cardinality(VectorsOf(vector_store, last.args.content_type, last.args.content_id)) = 2


\* ------------------------------------------------------------------------
\* Properties of searches after a deletion (SpecRetrieval)
\* ------------------------------------------------------------------------
\* the content was deleted from the store and has not been synced again
DeletedFromTheStore(content_id) ==
    /\ kg.content[content_id] = NoRow
    /\ Logged("content", content_id, "delete")

\* the entries of the last search of a search type
EntriesOf(search_type) ==
    {last.ret[i] : i \in {k \in 1..Len(last.ret) : last.ret[k].search_type = search_type}}

\* C40: once a delta sync has deleted content id X from the store, no later
\* search returns an entry with id X, from either branch, unless X is synced
\* again
C40_DeletedContentIsNotReturned ==
    (last.op = "search" /\ ~last.raised) =>
        \A e \in EntriesOf("semantic") \cup EntriesOf("keyword") :
            ~DeletedFromTheStore(e.id)

\* C40: what holds: the keyword branch returns no deleted content
C40_KeywordBranchReturnsNoDeletedContent ==
    (last.op = "search" /\ ~last.raised) =>
        \A e \in EntriesOf("keyword") : kg.content[e.id] # NoRow

\* C40: a search has returned an entry of the semantic branch for content a
\* delta sync had deleted
C40_DeletedContentReturned ==
    /\ last.op = "search"
    /\ ~last.raised
    /\ \E e \in EntriesOf("semantic") : DeletedFromTheStore(e.id)

\* C40: a search by keyword has run after a deletion and returned content
C40_KeywordWitness ==
    /\ last.op = "search"
    /\ ~last.raised
    /\ EntriesOf("keyword") # {}
    /\ \E id \in ContentIds : DeletedFromTheStore(id)

============================================================================
